---------------------------- MODULE Spec2Model ----------------------------
(***************************************************************************)
(* Model of the launch flow of the token-launch service:                   *)
(*   POST /launch-idol  ->  publishIdolTokenPackage  ->  registerAsset     *)
(* (src/unnamed/part_000, src/src/services/sui-blockchain.ts).             *)
(*                                                                         *)
(* The service is single-threaded and awaits every external call in turn,  *)
(* so one action is one step of the flow: an external call (compiler,      *)
(* file system, ledger RPC) together with the handling of its outcome.     *)
(* The outcome of every external call is an input drawn from a small set.  *)
(***************************************************************************)
EXTENDS Integers, Sequences, FiniteSets, TLC

(***************************************************************************)
(* Bounds of the model.                                                    *)
(***************************************************************************)
\* longest objectChanges list a publish transaction reports
MaxChanges == 4
\* longest error text (in tokens) a dry-run reports
MaxTextLen == 2
\* longest objectChanges list a launch transaction reports
MaxLaunchChanges == 3

(***************************************************************************)
(* Program constants.                                                      *)
(***************************************************************************)
\* waitForObject's default timeoutMs
DefaultTimeoutMs == 15000
\* waitForObject's default intervalMs
DefaultIntervalMs == 500

(***************************************************************************)
(* Strings are sequences of characters (or of longer tokens where the      *)
(* code never looks inside them).                                          *)
(***************************************************************************)
\* String.prototype.includes: sub occurs in s as a contiguous run
Includes(s, sub) ==
    \E i \in 0..(Len(s) - Len(sub)) :
        \A j \in 1..Len(sub) : s[i + j] = sub[j]

\* every sequence over S of length at most n
SeqsUpTo(S, n) == UNION {[1..k -> S] : k \in 0..n}

(***************************************************************************)
(* Characters of a ticker and their case mapping.                          *)
(***************************************************************************)
LowerLetters == {"a", "b"}
UpperLetters == {"A", "B"}
DigitChars == {"0", "1", "2", "3", "4", "5", "6", "7", "8", "9"}
OtherChars == {"$", "-"}

\* the letters of a ticker and of the prefix idol_
ToLowerChar(c) ==
    CASE c = "A" -> "a" [] c = "B" -> "b"
      [] c = "I" -> "i" [] c = "D" -> "d" [] c = "O" -> "o" [] c = "L" -> "l"
      [] OTHER -> c

ToUpperChar(c) ==
    CASE c = "a" -> "A" [] c = "b" -> "B"
      [] c = "i" -> "I" [] c = "d" -> "D" [] c = "o" -> "O" [] c = "l" -> "L"
      [] OTHER -> c

\* the characters the regular expression /[^a-zA-Z0-9_]/g leaves in place
IsIdentChar(c) == c \in LowerLetters \cup UpperLetters \cup DigitChars \cup {"_"}

toLowerCase(s) == [i \in 1..Len(s) |-> ToLowerChar(s[i])]
toUpperCase(s) == [i \in 1..Len(s) |-> ToUpperChar(s[i])]

\* a sanitization that leaves the case of the letters
SanitizeTickerKeepingCase(ticker) == SelectSeq(ticker, IsIdentChar)

\* params.ticker.replace(/[^a-zA-Z0-9_]/g, '').toLowerCase()
SanitizeTicker(ticker) == toLowerCase(SelectSeq(ticker, IsIdentChar))

DigitOf(d) ==
    CASE d = 0 -> "0" [] d = 1 -> "1" [] d = 2 -> "2" [] d = 3 -> "3"
      [] d = 4 -> "4" [] d = 5 -> "5" [] d = 6 -> "6" [] d = 7 -> "7"
      [] d = 8 -> "8" [] d = 9 -> "9"

\* decimal rendering of a non-negative integer, as a template literal does it
RECURSIVE NumberToString(_)
NumberToString(n) ==
    IF n < 10 THEN <<DigitOf(n)>>
    ELSE NumberToString(n \div 10) \o <<DigitOf(n % 10)>>

\* uniqueId = `${sanitizedTicker}_${Date.now()}`
UniqueId(ticker, now) == SanitizeTicker(ticker) \o <<"_">> \o NumberToString(now)

\* a module identifier without the timestamp
ModuleNameOfTicker(ticker, now) == <<"i", "d", "o", "l", "_">> \o SanitizeTicker(ticker)

\* moduleName = `idol_${uniqueId}`
ModuleName(ticker, now) == <<"i", "d", "o", "l", "_">> \o UniqueId(ticker, now)

\* structName = MODULE_NAME_UPPER = moduleName.toUpperCase()
StructName(moduleName) == toUpperCase(moduleName)

\* coinType = `${packageId}::${moduleName}::${MODULE_NAME_UPPER}`
CoinType(packageId, moduleName) ==
    packageId \o <<"::">> \o moduleName \o <<"::">> \o StructName(moduleName)

(***************************************************************************)
(* Errors, transactions, ledger responses.                                 *)
(***************************************************************************)
NoKind == [type |-> "", objectType |-> <<>>]

\* an object id; NoId stands for undefined
NoId == [kind |-> NoKind, n |-> 0]

\* this.keypair.getPublicKey().toSuiAddress()
SignerAddress == "0xsigner"

\* the configured shared objects
ConfigIds ==
    {"IAO_CONFIG_ID", "IAO_REGISTRY_ID", "POOLS_CONFIG_ID", "POOLS_REGISTRY_ID",
     "CETUS_GLOBAL_CONFIG_ID", "CETUS_POOLS_ID", "CLOCK_ID"}

\* a Transaction: its commands, and for a move call its type arguments and
\* its object arguments in their declared order
NoTx ==
    [commands |-> <<>>, typeArguments |-> <<>>, treasuryCap |-> NoId,
     objects |-> <<>>, recipient |-> ""]

\* one call of the ledger client, as the call log keeps it
Call(op, objId, cfg, digest, tx) ==
    [op |-> op, objId |-> objId, cfg |-> cfg, digest |-> digest, tx |-> tx]

\* the call log after one more call. The one call the service repeats on
\* purpose, waitForObject's lookup of the same object, is kept once.
LogCall(log, c) ==
    IF c.op = "getObject" /\ log # <<>> /\ log[Len(log)] = c
    THEN log
    ELSE Append(log, c)

Digests == {"digestA", "digestB"}

\* types of on-chain objects, as token sequences
TreasuryCapType == <<"0x2", "::coin::", "TreasuryCap", "<T>">>
CoinMetadataType == <<"0x2", "::coin::", "Coin", "Metadata", "<T>">>
UpgradeCapType == <<"0x2", "::package::", "UpgradeCap">>
CoinObjType == <<"0x2", "::coin::", "Coin", "<T>">>
\* env.POOLS_PACKAGE_ID of a configured service
PoolsPackageId == <<"0xpools">>

IAOType == <<"0xpools", "::iao::", "IAO", "<X,T>">>
LPCapType == <<"0xpools", "::iao::", "LPCap">>
BondingCurveType == <<"0xpools", "::bonding_curve::", "BondingCurve", "<X,T>">>

\* the substrings the extraction steps look for
TreasuryCapPattern == <<"::coin::", "TreasuryCap">>
CoinMetadataPattern == <<"::coin::", "Coin", "Metadata">>
LPCapPattern == <<"::iao::", "LPCap">>
CoinPattern == <<"::coin::", "Coin">>
IAOPattern == <<"::iao::", "IAO">>
BondingCurvePattern == <<"::bonding_curve::", "BondingCurve">>

\* the shapes of the records a publish transaction's objectChanges may hold
PublishChangeKinds ==
    {[type |-> "published", objectType |-> <<>>]}
    \cup [type : {"created"}, objectType : {TreasuryCapType, CoinMetadataType, UpgradeCapType}]
    \cup {[type |-> "transferred", objectType |-> TreasuryCapType],
          [type |-> "mutated", objectType |-> CoinMetadataType]}

\* the shapes of the records a launch transaction's objectChanges may hold
LaunchChangeKinds ==
    [type : {"created"}, objectType : {IAOType, BondingCurveType, LPCapType, CoinObjType}]
    \cup {[type |-> "mutated", objectType |-> IAOType]}

\* how many of the first i records have the shape of the i-th
Occurrence(kinds, i) == Cardinality({j \in 1..i : kinds[j] = kinds[i]})

\* objectChanges with the given shapes. Every record names an object of its
\* own: the n-th record of a shape carries the id [kind, n]. A published
\* record carries a packageId and neither objectType nor objectId.
ChangesOf(kinds) ==
    [i \in 1..Len(kinds) |->
        [type |-> kinds[i].type,
         objectType |-> kinds[i].objectType,
         objectId |-> IF kinds[i].type = "published" THEN NoId
                      ELSE [kind |-> kinds[i], n |-> Occurrence(kinds, i)],
         packageId |-> IF kinds[i].type = "published"
                       THEN <<"0xpkg">> \o NumberToString(Occurrence(kinds, i))
                       ELSE <<>>]]

\* an Error: its kind, the operation that raised it, and what its message
\* carries (an object label, an object id, a signer address, a text)
Err(kind, op, label, objId, text) ==
    [kind |-> kind, op |-> op, label |-> label, objId |-> objId, text |-> text]

NoError == Err("none", "", "", NoId, <<>>)

\* an optional text: undefined, or a string of tokens (possibly empty)
Undefined == [some |-> FALSE, text |-> <<>>]
Text(t) == [some |-> TRUE, text |-> t]

\* no dry-run result (yet)
NoDryRun == [effects |-> "none", statusError |-> Undefined, error |-> Undefined]

NoResult == [digest |-> "", objectChanges |-> <<>>]

NoToken ==
    [packageId |-> <<>>, treasuryCapId |-> NoId, coinMetadataId |-> NoId,
     moduleName |-> <<>>, structName |-> <<>>, coinType |-> <<>>]

NoWait ==
    [id |-> NoId, label |-> "", timeoutMs |-> 0, intervalMs |-> 0, elapsed |-> 0,
     attempts |-> 0, status |-> "idle", lastOutcome |-> "", gotData |-> FALSE,
     ret |-> ""]

NoRequest == [idolId |-> FALSE, createParams |-> FALSE, ticker |-> <<>>]

NoRegistered ==
    [digest |-> "", poolId |-> NoId, bondingCurveId |-> NoId, lpCapId |-> NoId,
     creatorTokensId |-> NoId]

NoResponse == [status |-> 0, error |-> NoError, token |-> NoToken,
               registered |-> NoRegistered]

\* no read operation is being served
NoQuery == [op |-> "", curveId |-> "", limit |-> 0, coinTypes |-> <<>>]

\* nothing was asked of the ledger: fetch tells how the request ended, data
\* is what came back, returned is what getTradeEvents returns
NoFetched == [fetch |-> "none", data |-> <<>>, returned |-> <<>>]

\* a read operation has not returned
NoAnswer ==
    [kind |-> "none", value |-> <<>>,
     error |-> [kind |-> "none", op |-> "", label |-> "", objId |-> NoId, text |-> <<>>]]

\* number of concurrent publishIdolTokenPackage invocations
MaxPublishers == 2

\* no directory
NoDir == [prefix |-> <<>>, suffix |-> 0]

\* publishIdolTokenPackage has not been called
NoPublisher ==
    [pc |-> "idle", ticker |-> <<>>, now |-> 0, uniqueId |-> <<>>, tmpDir |-> NoDir]

NoPublishers == [p \in 1..MaxPublishers |-> NoPublisher]

\* no read operation was invoked before
NoPrevious ==
    [set |-> FALSE, query |-> NoQuery, fetched |-> NoFetched, reads |-> <<>>,
     answer |-> NoAnswer]

\* tickers a launch request may carry
Tickers == {<<"A", "$", "b">>, <<"a", "_", "1">>}

\* Date.now() when the module identifier is built
Timestamps == {7, 12}

VARIABLES
    pc,           \* the step the flow executes next
    request,      \* the body of the POST /launch-idol request
    moduleName,   \* publish: moduleName
    tmpDir,       \* publish: the temporary workspace, "none" | "exists" | "removed"
    compiled,     \* publish: modules and dependencies are set
    tx,           \* the Transaction built last
    result,       \* the result of the last signAndExecuteTransaction
    extracted,    \* publish: packageId, tcapChange, metaChange, coinType
    token,        \* what publishIdolTokenPackage returned
    idolToken,    \* registerAsset's first argument
    wait,         \* the running (or last) waitForObject call
    preflight,    \* registerAsset: number of assertObjectExists calls passed
    dryRun,       \* registerAsset: di, the result of the dry-run
    confirmed,    \* ids that a waitForObject lookup has returned data for
    registered,   \* what registerAsset returned
    error,        \* the error the flow ended with
    response,     \* the HTTP response sent
    calls,        \* the calls of the ledger client so far, in order
    query,        \* the read operation being served and its arguments
    fetched,      \* what a read operation got from the ledger: events, or a simulation's answer
    tasks,        \* computeMarketCaps: the per-coin-type tasks
    answer,       \* what the read operation returned or threw
    publishers,   \* concurrent publishIdolTokenPackage invocations: step, names, workspace
    dirs,         \* the directories that exist in os.tmpdir()
    previous,     \* a read operation invoked before: its arguments, the ledger's answers, its result
    poolsPackageId \* the service's poolsPackageId, <<>> when POOLS_PACKAGE_ID is not set

\* the variables of the launch flow
launchVars ==
    <<request, moduleName, tmpDir, compiled, tx, result, extracted, token, idolToken,
      wait, preflight, dryRun, confirmed, registered, response, calls>>

\* the variables of the read operations
readVars == <<query, fetched, tasks, answer>>

\* the variables of concurrent publish invocations
publishVars == <<publishers, dirs>>

vars ==
    <<pc, request, moduleName, tmpDir, compiled, tx, result, extracted, token, idolToken,
      wait, preflight, dryRun, confirmed, registered, error, response, calls,
      query, fetched, tasks, answer, publishers, dirs, previous, poolsPackageId>>

Init ==
    /\ pc = "idle"
    /\ request = NoRequest
    /\ moduleName = <<>>
    /\ tmpDir = "none"
    /\ compiled = FALSE
    /\ tx = NoTx
    /\ result = NoResult
    /\ extracted = NoToken
    /\ token = NoToken
    /\ idolToken = NoToken
    /\ wait = NoWait
    /\ preflight = 0
    /\ dryRun = NoDryRun
    /\ confirmed = {}
    /\ registered = NoRegistered
    /\ error = NoError
    /\ response = NoResponse
    /\ calls = <<>>
    /\ query = NoQuery
    /\ fetched = NoFetched
    /\ tasks = <<>>
    /\ answer = NoAnswer
    /\ publishers = NoPublishers
    /\ dirs = {}
    /\ previous = NoPrevious
    /\ poolsPackageId = PoolsPackageId

\* a catch block that hands back what publish returned
HandlerCatchReturningToken(e) ==
    /\ error' = e
    /\ response' = [NoResponse EXCEPT !.status = 500, !.error = e, !.token = token]
    /\ pc' = "done"

\* the catch block of the launch handler: any error of publish or register
\* ends the flow with a 500 response carrying only the error's message
HandlerCatch(e) ==
    /\ error' = e
    /\ response' = [NoResponse EXCEPT !.status = 500, !.error = e]
    /\ pc' = "done"

(***************************************************************************)
(* POST /launch-idol                                                       *)
(***************************************************************************)
LaunchRequest ==
    /\ pc = "idle"
    /\ \E hasId \in BOOLEAN, hasParams \in BOOLEAN, ticker \in Tickers :
        /\ request' = [idolId |-> hasId, createParams |-> hasParams,
                       ticker |-> IF hasParams THEN ticker ELSE <<>>]
        /\ IF ~hasId \/ ~hasParams
           THEN /\ response' = [NoResponse EXCEPT !.status = 400]
                /\ pc' = "done"
           ELSE /\ response' = response
                /\ pc' = "ensureSuiAvailable"
    /\ UNCHANGED <<moduleName, tmpDir, compiled, tx, result, extracted, token,
                   idolToken, wait, preflight, dryRun, confirmed, registered, error, calls>>
    /\ UNCHANGED readVars
    /\ UNCHANGED publishVars
    /\ UNCHANGED poolsPackageId
    /\ UNCHANGED previous

(***************************************************************************)
(* publishIdolTokenPackage                                                 *)
(***************************************************************************)
\* a check made only after the workspace has been created
EnsureSuiAvailableLate ==
    /\ pc = "ensureSuiAvailable"
    /\ tmpDir' = "exists"
    /\ \E ok \in BOOLEAN :
        IF ok
        THEN /\ pc' = "materialize"
             /\ UNCHANGED <<error, response>>
        ELSE HandlerCatch(Err("ToolingUnavailable", "publish", "", NoId, <<>>))
    /\ UNCHANGED <<request, moduleName, compiled, tx, result, extracted,
                   token, idolToken, wait, preflight, dryRun, confirmed, registered, calls>>
    /\ UNCHANGED readVars
    /\ UNCHANGED publishVars
    /\ UNCHANGED poolsPackageId
    /\ UNCHANGED previous

\* `sui --version` runs or does not
EnsureSuiAvailable ==
    /\ pc = "ensureSuiAvailable"
    /\ \E ok \in BOOLEAN :
        IF ok
        THEN /\ pc' = "materialize"
             /\ UNCHANGED <<error, response>>
        ELSE HandlerCatch(Err("ToolingUnavailable", "publish", "", NoId, <<>>))
    /\ UNCHANGED <<request, moduleName, tmpDir, compiled, tx, result, extracted,
                   token, idolToken, wait, preflight, dryRun, confirmed, registered, calls>>
    /\ UNCHANGED readVars
    /\ UNCHANGED publishVars
    /\ UNCHANGED poolsPackageId
    /\ UNCHANGED previous

\* the file-system calls that build the workspace, in order
FsSteps == <<"mkdtempSync", "mkdirSync", "writeSource", "writeManifest">>

\* the names are derived, then the workspace is built by four synchronous
\* file-system calls; failedAt is the first of them that throws (0: none)
MaterializeWorkspace ==
    /\ pc = "materialize"
    /\ \E now \in Timestamps, failedAt \in 0..Len(FsSteps) :
        /\ moduleName' = ModuleName(request.ticker, now)
        /\ tmpDir' = IF failedAt = 1 THEN "none" ELSE "exists"
        /\ IF failedAt = 0
           THEN /\ pc' = "compile"
                /\ UNCHANGED <<error, response>>
           ELSE HandlerCatch(Err("FsError", "publish", FsSteps[failedAt], NoId, <<>>))
    /\ UNCHANGED <<request, compiled, tx, result, extracted, token, idolToken,
                   wait, preflight, dryRun, confirmed, registered, calls>>
    /\ UNCHANGED readVars
    /\ UNCHANGED publishVars
    /\ UNCHANGED poolsPackageId
    /\ UNCHANGED previous

\* a build whose unparsable output is not noticed
CompilePackageUnparsed ==
    /\ pc = "compile"
    /\ \E outcome \in {"ok", "buildFailed", "unparsable"} :
        /\ tmpDir' = "removed"
        /\ IF outcome # "buildFailed"
           THEN /\ compiled' = (outcome = "ok")
                /\ pc' = "publishSubmit"
                /\ UNCHANGED <<error, response>>
           ELSE /\ compiled' = FALSE
                /\ HandlerCatch(Err("CompilationFailure", "publish", outcome, NoId, <<>>))
    /\ UNCHANGED <<request, moduleName, tx, result, extracted, token, idolToken,
                   wait, preflight, dryRun, confirmed, registered, calls>>
    /\ UNCHANGED readVars
    /\ UNCHANGED publishVars
    /\ UNCHANGED poolsPackageId
    /\ UNCHANGED previous

\* `sui move build` and JSON.parse of its output, in try/catch/finally
CompilePackage ==
    /\ pc = "compile"
    /\ \E outcome \in {"ok", "buildFailed", "unparsable"} :
        /\ tmpDir' = "removed"
        /\ IF outcome = "ok"
           THEN /\ compiled' = TRUE
                /\ pc' = "publishSubmit"
                /\ UNCHANGED <<error, response>>
           ELSE /\ compiled' = FALSE
                /\ HandlerCatch(Err("CompilationFailure", "publish", outcome, NoId, <<>>))
    /\ UNCHANGED <<request, moduleName, tx, result, extracted, token, idolToken,
                   wait, preflight, dryRun, confirmed, registered, calls>>
    /\ UNCHANGED readVars
    /\ UNCHANGED publishVars
    /\ UNCHANGED poolsPackageId
    /\ UNCHANGED previous

\* a publish transaction that hands the upgrade capability to someone else
PublishTxToCreator ==
    [NoTx EXCEPT !.commands = <<"Publish", "TransferObjects">>,
                 !.recipient = "0xcreator"]

\* tx.publish({modules, dependencies}); tx.transferObjects([upgradeCap], recipient)
PublishTx ==
    [NoTx EXCEPT !.commands = <<"Publish", "TransferObjects">>,
                 !.recipient = SignerAddress]

\* signAndExecuteTransaction of the publish transaction
PublishSubmit ==
    /\ pc = "publishSubmit"
    /\ tx' = PublishTx
    /\ calls' = LogCall(calls, Call("signAndExecuteTransaction", NoId, "", "", PublishTx))
    /\ \/ /\ HandlerCatch(Err("RpcError", "publish", "signAndExecuteTransaction", NoId, <<>>))
          /\ UNCHANGED result
       \/ \E digest \in Digests, kinds \in SeqsUpTo(PublishChangeKinds, MaxChanges) :
            /\ result' = [digest |-> digest, objectChanges |-> ChangesOf(kinds)]
            /\ pc' = "publishWaitForTransaction"
            /\ UNCHANGED <<error, response>>
    /\ UNCHANGED <<request, moduleName, tmpDir, compiled, extracted, token,
                   idolToken, wait, preflight, dryRun, confirmed, registered>>
    /\ UNCHANGED readVars
    /\ UNCHANGED publishVars
    /\ UNCHANGED poolsPackageId
    /\ UNCHANGED previous

\* a publish that goes on without waiting for the transaction to be indexed
PublishSkipWaitForTransaction ==
    /\ pc = "publishWaitForTransaction"
    /\ pc' = "publishExtract"
    /\ UNCHANGED <<request, moduleName, tmpDir, compiled, tx, result, extracted,
                   token, idolToken, wait, preflight, dryRun, confirmed,
                   registered, error, response, calls>>
    /\ UNCHANGED readVars
    /\ UNCHANGED publishVars
    /\ UNCHANGED poolsPackageId
    /\ UNCHANGED previous

\* waitForTransaction on the digest of the publish transaction
PublishWaitForTransaction ==
    /\ pc = "publishWaitForTransaction"
    /\ calls' = LogCall(calls, Call("waitForTransaction", NoId, "", result.digest, NoTx))
    /\ \/ HandlerCatch(Err("RpcError", "publish", "waitForTransaction", NoId, <<>>))
       \/ /\ pc' = "publishExtract"
          /\ UNCHANGED <<error, response>>
    /\ UNCHANGED <<request, moduleName, tmpDir, compiled, tx, result, extracted,
                   token, idolToken, wait, preflight, dryRun, confirmed, registered>>
    /\ UNCHANGED readVars
    /\ UNCHANGED publishVars
    /\ UNCHANGED poolsPackageId
    /\ UNCHANGED previous

\* objectChanges.find((o) => o.type === 'published')
IsPublished(o) == o.type = "published"

\* (o.type === 'created' || o.type === 'transferred') &&
\* typeof o.objectType === 'string' && o.objectType.includes(pattern)
IsCreatedOrTransferredOf(o, pattern) ==
    /\ o.type \in {"created", "transferred"}
    /\ o.objectType # <<>>
    /\ Includes(o.objectType, pattern)

IsTreasuryCapChange(o) == IsCreatedOrTransferredOf(o, TreasuryCapPattern)
IsCoinMetadataChange(o) == IsCreatedOrTransferredOf(o, CoinMetadataPattern)

\* Array.prototype.find: the first element of a given set of positions
FirstOf(positions) ==
    IF positions = {} THEN 0
    ELSE CHOOSE i \in positions : \A j \in positions : i <= j

\* packageId = objectChanges.find(published)?.packageId
FindPackageId(changes) ==
    LET i == FirstOf({k \in 1..Len(changes) : IsPublished(changes[k])})
    IN  IF i = 0 THEN <<>> ELSE changes[i].packageId

\* the last matching record instead of the first
FindLastTreasuryCapId(changes) ==
    LET ks == {k \in 1..Len(changes) : IsTreasuryCapChange(changes[k])}
    IN  IF ks = {} THEN NoId
        ELSE changes[CHOOSE i \in ks : \A j \in ks : j <= i].objectId

\* tcapChange?.objectId
FindTreasuryCapId(changes) ==
    LET i == FirstOf({k \in 1..Len(changes) : IsTreasuryCapChange(changes[k])})
    IN  IF i = 0 THEN NoId ELSE changes[i].objectId

\* metaChange?.objectId
FindCoinMetadataId(changes) ==
    LET i == FirstOf({k \in 1..Len(changes) : IsCoinMetadataChange(changes[k])})
    IN  IF i = 0 THEN NoId ELSE changes[i].objectId

\* !packageId || !tcapChange?.objectId || !metaChange?.objectId
ExtractionFails(changes) ==
    \/ FindPackageId(changes) = <<>>
    \/ FindTreasuryCapId(changes) = NoId
    \/ FindCoinMetadataId(changes) = NoId

\* a call of waitForObject(id, label) with the default options
StartWait(id, label, ret) ==
    [id |-> id, label |-> label, timeoutMs |-> DefaultTimeoutMs,
     intervalMs |-> DefaultIntervalMs, elapsed |-> 0, attempts |-> 0,
     status |-> "lookup", lastOutcome |-> "", gotData |-> FALSE, ret |-> ret]

\* the three identifiers are read from result.objectChanges (result is not
\* read again); then waitForObject(tcapChange.objectId, 'TreasuryCap') is called
PublishExtract ==
    /\ pc = "publishExtract"
    /\ LET changes == result.objectChanges IN
        IF ExtractionFails(changes)
        THEN /\ HandlerCatch(Err("ExtractionFailure", "publish", "", NoId, <<>>))
             /\ UNCHANGED <<extracted, wait>>
        ELSE /\ extracted' =
                    [NoToken EXCEPT
                        !.packageId = FindPackageId(changes),
                        !.treasuryCapId = FindTreasuryCapId(changes),
                        !.coinMetadataId = FindCoinMetadataId(changes),
                        !.coinType = CoinType(FindPackageId(changes), moduleName)]
             /\ wait' = StartWait(FindTreasuryCapId(changes), "TreasuryCap", "publishWaitMeta")
             /\ pc' = "waitForObject"
             /\ UNCHANGED <<error, response>>
    /\ result' = NoResult
    /\ UNCHANGED <<request, moduleName, tmpDir, compiled, tx, token,
                   idolToken, preflight, dryRun, confirmed, registered, calls>>
    /\ UNCHANGED readVars
    /\ UNCHANGED publishVars
    /\ UNCHANGED poolsPackageId
    /\ UNCHANGED previous

(***************************************************************************)
(* waitForObject                                                           *)
(***************************************************************************)
\* time (ms) a getObject lookup may take
LookupLatencies == {0, 7000}

\* the error waitForObject raises when the deadline has passed
TimeoutError(w, op) == Err("ReadinessTimeout", op, w.label, w.id, <<>>)

\* a deadline check that allows one more interval
DeadlinePassedLate(w) == w.elapsed >= w.timeoutMs + w.intervalMs + 1

\* Date.now() - start >= timeoutMs
DeadlinePassed(w) == w.elapsed >= w.timeoutMs

\* a test that only asks whether the lookup returned
LookupReturned(outcome) == outcome \in {"data", "nodata"}

\* 'data' in res && res.data
LookupSucceeded(outcome) == outcome = "data"

\* waitForObject has returned: of its frame, only what it was called for and
\* that its last lookup had data is kept
WaitReturned(w) ==
    [NoWait EXCEPT !.id = w.id, !.label = w.label, !.status = "returned",
                   !.lastOutcome = w.lastOutcome, !.gotData = TRUE]

\* a loop that checks the deadline before it looks the object up
WaitAttemptCheckingFirst ==
    /\ pc = "waitForObject"
    /\ wait.status = "lookup"
    /\ IF DeadlinePassed(wait)
       THEN /\ wait' = [wait EXCEPT !.status = "timeout"]
            /\ HandlerCatch(TimeoutError(wait, "publish"))
            /\ UNCHANGED <<confirmed, calls>>
       ELSE /\ calls' = LogCall(calls, Call("getObject", wait.id, "", "", NoTx))
            /\ \E outcome \in {"data", "nodata", "throws"}, latency \in LookupLatencies :
                LET w == [wait EXCEPT !.attempts = @ + 1, !.elapsed = @ + latency,
                                      !.lastOutcome = outcome] IN
                IF LookupSucceeded(outcome)
                THEN /\ wait' = WaitReturned(w)
                     /\ confirmed' = confirmed \cup {wait.id}
                     /\ pc' = wait.ret
                     /\ UNCHANGED <<error, response>>
                ELSE /\ wait' = [w EXCEPT !.status = "sleep"]
                     /\ UNCHANGED <<pc, error, response, confirmed>>
    /\ UNCHANGED <<request, moduleName, tmpDir, compiled, tx, result, extracted,
                   token, idolToken, preflight, dryRun, registered>>
    /\ UNCHANGED readVars
    /\ UNCHANGED publishVars
    /\ UNCHANGED poolsPackageId
    /\ UNCHANGED previous

\* one turn of the loop: getObject, then the deadline check. The lookup
\* returns data, returns without data, or throws.
WaitAttempt ==
    /\ pc = "waitForObject"
    /\ wait.status = "lookup"
    /\ calls' = LogCall(calls, Call("getObject", wait.id, "", "", NoTx))
    /\ \E outcome \in {"data", "nodata", "throws"}, latency \in LookupLatencies :
        LET w == [wait EXCEPT !.attempts = @ + 1, !.elapsed = @ + latency,
                              !.lastOutcome = outcome] IN
        IF LookupSucceeded(outcome)
        THEN /\ wait' = WaitReturned(w)
             /\ confirmed' = confirmed \cup {wait.id}
             /\ pc' = wait.ret
             /\ UNCHANGED <<error, response>>
        ELSE IF DeadlinePassed(w)
        THEN /\ wait' = [w EXCEPT !.status = "timeout"]
             /\ HandlerCatch(TimeoutError(w, "publish"))
             /\ UNCHANGED confirmed
        ELSE /\ wait' = [w EXCEPT !.status = "sleep"]
             /\ UNCHANGED <<pc, error, response, confirmed>>
    /\ UNCHANGED <<request, moduleName, tmpDir, compiled, tx, result, extracted,
                   token, idolToken, preflight, dryRun, registered>>
    /\ UNCHANGED readVars
    /\ UNCHANGED publishVars
    /\ UNCHANGED poolsPackageId
    /\ UNCHANGED previous

\* await new Promise((r) => setTimeout(r, intervalMs))
WaitSleep ==
    /\ pc = "waitForObject"
    /\ wait.status = "sleep"
    /\ wait' = [wait EXCEPT !.status = "lookup", !.elapsed = @ + wait.intervalMs]
    /\ UNCHANGED <<pc, request, moduleName, tmpDir, compiled, tx, result,
                   extracted, token, idolToken, preflight, dryRun, confirmed,
                   registered, error, response, calls>>
    /\ UNCHANGED readVars
    /\ UNCHANGED publishVars
    /\ UNCHANGED poolsPackageId
    /\ UNCHANGED previous

\* a publish that does not wait for the coin metadata
PublishSkipWaitMeta ==
    /\ pc = "publishWaitMeta"
    /\ pc' = "publishReturn"
    /\ UNCHANGED <<request, moduleName, tmpDir, compiled, tx, result, extracted,
                   token, idolToken, wait, preflight, dryRun, confirmed,
                   registered, error, response, calls>>
    /\ UNCHANGED readVars
    /\ UNCHANGED publishVars
    /\ UNCHANGED poolsPackageId
    /\ UNCHANGED previous

\* waitForObject(metaChange.objectId, 'CoinMetadata')
PublishWaitMeta ==
    /\ pc = "publishWaitMeta"
    /\ wait' = StartWait(extracted.coinMetadataId, "CoinMetadata", "publishReturn")
    /\ pc' = "waitForObject"
    /\ UNCHANGED <<request, moduleName, tmpDir, compiled, tx, result, extracted,
                   token, idolToken, preflight, dryRun, confirmed, registered, error,
                   response, calls>>
    /\ UNCHANGED readVars
    /\ UNCHANGED publishVars
    /\ UNCHANGED poolsPackageId
    /\ UNCHANGED previous

\* the PublishedToken that publishIdolTokenPackage returns
PublishedToken(x, name) ==
    [packageId |-> x.packageId, treasuryCapId |-> x.treasuryCapId,
     coinMetadataId |-> x.coinMetadataId, moduleName |-> name,
     structName |-> StructName(name), coinType |-> x.coinType]

\* an argument whose treasuryCapId is the coin metadata's id
RegisterArgumentSwapped(t) ==
    [packageId |-> t.packageId, treasuryCapId |-> t.coinMetadataId,
     coinMetadataId |-> NoId, moduleName |-> t.moduleName,
     structName |-> t.structName, coinType |-> t.coinType]

\* the first argument the launch handler gives registerAsset
RegisterArgument(t) ==
    [packageId |-> t.packageId, treasuryCapId |-> t.treasuryCapId,
     coinMetadataId |-> NoId, moduleName |-> t.moduleName,
     structName |-> t.structName, coinType |-> t.coinType]

\* publishIdolTokenPackage returns; the handler calls registerAsset
PublishReturn ==
    /\ pc = "publishReturn"
    /\ token' = PublishedToken(extracted, moduleName)
    /\ idolToken' = RegisterArgument(token')
    /\ preflight' = 0
    /\ pc' = "assertObjectExists"
    /\ UNCHANGED <<request, moduleName, tmpDir, compiled, tx, result, extracted,
                   wait, dryRun, confirmed, registered, error, response, calls>>
    /\ UNCHANGED readVars
    /\ UNCHANGED publishVars
    /\ UNCHANGED poolsPackageId
    /\ UNCHANGED previous

(***************************************************************************)
(* registerAsset                                                           *)
(***************************************************************************)
\* the objects assertObjectExists is called on, in order (by label)
PreflightObjects ==
    <<"TreasuryCap", "IAO_CONFIG_ID", "IAO_REGISTRY_ID", "POOLS_CONFIG_ID",
      "POOLS_REGISTRY_ID", "CLOCK_ID">>

\* one assertObjectExists call: the lookup returns data, returns without
\* data, or throws
AssertObjectExists ==
    /\ pc = "assertObjectExists"
    /\ LET label == PreflightObjects[preflight + 1]
           objId == IF label = "TreasuryCap" THEN idolToken.treasuryCapId ELSE NoId
           cfg == IF label = "TreasuryCap" THEN "" ELSE label
       IN
        /\ calls' = LogCall(calls, Call("getObject", objId, cfg, "", NoTx))
        /\ \E outcome \in {"data", "nodata", "throws"} :
            CASE outcome = "data" ->
                    /\ preflight' = preflight + 1
                    /\ pc' = IF preflight + 1 = Len(PreflightObjects)
                             THEN "dryRun" ELSE "assertObjectExists"
                    /\ UNCHANGED <<error, response>>
              [] outcome = "nodata" ->
                    /\ HandlerCatch(Err("PreflightMissingObject", "register", label, objId, <<>>))
                    /\ UNCHANGED preflight
              [] outcome = "throws" ->
                    /\ HandlerCatch(Err("RpcError", "register", "getObject", NoId, <<>>))
                    /\ UNCHANGED preflight
    /\ UNCHANGED <<request, moduleName, tmpDir, compiled, tx, result, extracted,
                   token, idolToken, wait, dryRun, confirmed, registered>>
    /\ UNCHANGED readVars
    /\ UNCHANGED publishVars
    /\ UNCHANGED poolsPackageId
    /\ UNCHANGED previous

\* splitCoins, then the move call factory::launch_idol<coinType>(...) with
\* its object arguments in their declared order
LaunchTx(t) ==
    [commands |-> <<"SplitCoins", "MoveCall">>,
     typeArguments |-> <<t.coinType>>,
     treasuryCap |-> t.treasuryCapId,
     objects |-> <<"IAO_CONFIG_ID", "IAO_REGISTRY_ID", "POOLS_CONFIG_ID",
                   "POOLS_REGISTRY_ID", "CETUS_GLOBAL_CONFIG_ID",
                   "CETUS_POOLS_ID", "CLOCK_ID">>,
     recipient |-> ""]

\* the pieces error texts are made of
ErrorTokens == {"MoveAbort", "::config::is_allowed"}

\* '::config::is_allowed'
PermissionMarker == <<"::config::is_allowed">>

OptionalTexts == {Undefined} \cup {Text(t) : t \in SeqsUpTo(ErrorTokens, MaxTextLen)}

\* what devInspectTransactionBlock may resolve to: effects missing, or
\* effects.status an object {status: 'success'} or {status: 'failure', error?},
\* or effects.status a bare string; with or without a top-level error
DevInspectResults ==
    [effects : {"missing", "success", "failureString"}, statusError : {Undefined},
     error : OptionalTexts]
    \cup [effects : {"failure"}, statusError : OptionalTexts, error : OptionalTexts]

\* di?.effects?.status?.status ?? di?.effects?.status
DryRunStatus(di) ==
    CASE di.effects = "missing" -> "undefined"
      [] di.effects = "success" -> "success"
      [] di.effects = "failure" -> "failure"
      [] di.effects = "failureString" -> "failure"

\* an error read from the top-level field only
DryRunErrorTopLevelOnly(di) == di.error

\* di?.effects?.status?.error ?? di?.error
DryRunError(di) == IF di.statusError.some THEN di.statusError ELSE di.error

\* a check that reads only effects.status.status
DryRunFailedObjectOnly(di) == di.effects = "failure"

\* status === 'failure'
DryRunFailed(di) == DryRunStatus(di) = "failure"

\* error && String(error).includes('::config::is_allowed')
IsPermissionFailure(e) == e.some /\ e.text # <<>> /\ Includes(e.text, PermissionMarker)

\* the error registerAsset throws for a failed dry-run
DryRunFailure(di, sender) ==
    LET e == DryRunError(di) IN
    IF IsPermissionFailure(e)
    THEN Err("NotAuthorized", "register", sender, NoId, <<>>)
    ELSE Err("SimulationAbort", "register", "", NoId,
             IF e.some THEN e.text ELSE <<"unknown error">>)

\* a simulation that is asked for a second time when the first call throws
RegisterDryRunRetry ==
    /\ pc = "dryRun"
    /\ tx' = LaunchTx(idolToken)
    /\ calls' = Append(calls, Call("devInspectTransactionBlock", NoId, "", "", LaunchTx(idolToken)))
    /\ \/ /\ \A i \in 1..Len(calls) : calls[i].op # "devInspectTransactionBlock"
          /\ UNCHANGED <<pc, error, response, dryRun>>
       \/ /\ HandlerCatch(Err("RpcError", "register", "devInspectTransactionBlock", NoId, <<>>))
          /\ UNCHANGED dryRun
       \/ \E di \in DevInspectResults :
            IF DryRunFailed(di)
            THEN /\ dryRun' = di
                 /\ HandlerCatch(DryRunFailure(di, SignerAddress))
            ELSE /\ dryRun' = di
                 /\ pc' = "registerSubmit"
                 /\ UNCHANGED <<error, response>>
    /\ UNCHANGED <<request, moduleName, tmpDir, compiled, result, extracted,
                   token, idolToken, wait, preflight, confirmed, registered>>
    /\ UNCHANGED readVars
    /\ UNCHANGED publishVars
    /\ UNCHANGED poolsPackageId
    /\ UNCHANGED previous

\* the transaction is built and simulated with devInspectTransactionBlock;
\* a simulated failure is classified and thrown; otherwise the transaction
\* goes on to be submitted, whatever else di holds
RegisterDryRun ==
    /\ pc = "dryRun"
    /\ tx' = LaunchTx(idolToken)
    /\ calls' = LogCall(calls, Call("devInspectTransactionBlock", NoId, "", "", LaunchTx(idolToken)))
    /\ \/ /\ HandlerCatch(Err("RpcError", "register", "devInspectTransactionBlock", NoId, <<>>))
          /\ UNCHANGED dryRun
       \/ \E di \in DevInspectResults :
            IF DryRunFailed(di)
            THEN /\ dryRun' = di
                 /\ HandlerCatch(DryRunFailure(di, SignerAddress))
            ELSE /\ dryRun' = di
                 /\ pc' = "registerSubmit"
                 /\ UNCHANGED <<error, response>>
    /\ UNCHANGED <<request, moduleName, tmpDir, compiled, result, extracted,
                   token, idolToken, wait, preflight, confirmed, registered>>
    /\ UNCHANGED readVars
    /\ UNCHANGED publishVars
    /\ UNCHANGED poolsPackageId
    /\ UNCHANGED previous

\* a submission that is retried once
RegisterSubmitTwice ==
    /\ pc = "registerSubmit"
    /\ dryRun' = NoDryRun
    /\ calls' = LogCall(LogCall(calls,
                    Call("signAndExecuteTransaction", NoId, "", "", tx)),
                    Call("signAndExecuteTransaction", NoId, "", "", tx))
    /\ \E digest \in Digests, kinds \in SeqsUpTo(LaunchChangeKinds, MaxLaunchChanges) :
            /\ result' = [digest |-> digest, objectChanges |-> ChangesOf(kinds)]
            /\ pc' = "registerWaitForTransaction"
            /\ UNCHANGED <<error, response>>
    /\ UNCHANGED <<request, moduleName, tmpDir, compiled, tx, extracted, token,
                   idolToken, wait, preflight, confirmed, registered>>
    /\ UNCHANGED readVars
    /\ UNCHANGED publishVars
    /\ UNCHANGED poolsPackageId
    /\ UNCHANGED previous

\* signAndExecuteTransaction of the launch transaction (di, status and error
\* are not read again)
RegisterSubmit ==
    /\ pc = "registerSubmit"
    /\ dryRun' = NoDryRun
    /\ calls' = LogCall(calls, Call("signAndExecuteTransaction", NoId, "", "", tx))
    /\ \/ /\ HandlerCatch(Err("RpcError", "register", "signAndExecuteTransaction", NoId, <<>>))
          /\ UNCHANGED result
       \/ \E digest \in Digests, kinds \in SeqsUpTo(LaunchChangeKinds, MaxLaunchChanges) :
            /\ result' = [digest |-> digest, objectChanges |-> ChangesOf(kinds)]
            /\ pc' = "registerWaitForTransaction"
            /\ UNCHANGED <<error, response>>
    /\ UNCHANGED <<request, moduleName, tmpDir, compiled, tx, extracted, token,
                   idolToken, wait, preflight, confirmed, registered>>
    /\ UNCHANGED readVars
    /\ UNCHANGED publishVars
    /\ UNCHANGED poolsPackageId
    /\ UNCHANGED previous

\* a registerAsset that reads the result without waiting for the indexer
RegisterSkipWaitForTransaction ==
    /\ pc = "registerWaitForTransaction"
    /\ pc' = "registerExtract"
    /\ UNCHANGED <<request, moduleName, tmpDir, compiled, tx, result, extracted,
                   token, idolToken, wait, preflight, dryRun, confirmed, registered,
                   error, response, calls>>
    /\ UNCHANGED readVars
    /\ UNCHANGED publishVars
    /\ UNCHANGED poolsPackageId
    /\ UNCHANGED previous

\* waitForTransaction on the digest of the launch transaction
RegisterWaitForTransaction ==
    /\ pc = "registerWaitForTransaction"
    /\ calls' = LogCall(calls, Call("waitForTransaction", NoId, "", result.digest, NoTx))
    /\ \/ HandlerCatch(Err("RpcError", "register", "waitForTransaction", NoId, <<>>))
       \/ /\ pc' = "registerExtract"
          /\ UNCHANGED <<error, response>>
    /\ UNCHANGED <<request, moduleName, tmpDir, compiled, tx, result, extracted,
                   token, idolToken, wait, preflight, dryRun, confirmed, registered>>
    /\ UNCHANGED readVars
    /\ UNCHANGED publishVars
    /\ UNCHANGED poolsPackageId
    /\ UNCHANGED previous

\* createdObjects?.find((o) => o.objectType.includes(pattern))?.objectId
FindCreatedId(changes, pattern) ==
    LET i == FirstOf({k \in 1..Len(changes) :
                        /\ changes[k].type = "created"
                        /\ Includes(changes[k].objectType, pattern)})
    IN  IF i = 0 THEN NoId ELSE changes[i].objectId

\* what registerAsset returns
RegisteredAsset(res) ==
    [digest |-> res.digest,
     poolId |-> FindCreatedId(res.objectChanges, IAOPattern),
     bondingCurveId |-> FindCreatedId(res.objectChanges, BondingCurvePattern),
     lpCapId |-> FindCreatedId(res.objectChanges, LPCapPattern),
     creatorTokensId |-> FindCreatedId(res.objectChanges, CoinPattern)]

\* res.status(200).json({...}) of the launch handler
LaunchResponse(t, r) ==
    [status |-> 200, error |-> NoError, token |-> t, registered |-> r]

\* an extraction that also insists on the liquidity-provider capability
RegisterExtractStrict ==
    /\ pc = "registerExtract"
    /\ LET r == RegisteredAsset(result) IN
        IF r.poolId = NoId
        THEN /\ HandlerCatch(Err("PoolMissing", "register", "", NoId, <<>>))
             /\ UNCHANGED registered
        ELSE IF r.bondingCurveId = NoId \/ r.lpCapId = NoId
        THEN /\ HandlerCatch(Err("CurveMissing", "register", "", NoId, <<>>))
             /\ UNCHANGED registered
        ELSE /\ registered' = r
             /\ response' = LaunchResponse(token, r)
             /\ pc' = "done"
             /\ UNCHANGED error
    /\ UNCHANGED <<request, moduleName, tmpDir, compiled, tx, result, extracted,
                   token, idolToken, wait, preflight, dryRun, confirmed, calls>>
    /\ UNCHANGED readVars
    /\ UNCHANGED publishVars
    /\ UNCHANGED poolsPackageId
    /\ UNCHANGED previous

\* the created objects are read from result.objectChanges; registerAsset
\* returns and the handler answers 200
RegisterExtract ==
    /\ pc = "registerExtract"
    /\ LET r == RegisteredAsset(result) IN
        IF r.poolId = NoId
        THEN /\ HandlerCatch(Err("PoolMissing", "register", "", NoId, <<>>))
             /\ UNCHANGED registered
        ELSE IF r.bondingCurveId = NoId
        THEN /\ HandlerCatch(Err("CurveMissing", "register", "", NoId, <<>>))
             /\ UNCHANGED registered
        ELSE /\ registered' = r
             /\ response' = LaunchResponse(token, r)
             /\ pc' = "done"
             /\ UNCHANGED error
    /\ UNCHANGED <<request, moduleName, tmpDir, compiled, tx, result, extracted,
                   token, idolToken, wait, preflight, dryRun, confirmed, calls>>
    /\ UNCHANGED readVars
    /\ UNCHANGED publishVars
    /\ UNCHANGED poolsPackageId
    /\ UNCHANGED previous

Next ==
    \/ LaunchRequest
    \/ EnsureSuiAvailable
    \/ MaterializeWorkspace
    \/ CompilePackage
    \/ PublishSubmit
    \/ PublishWaitForTransaction
    \/ PublishExtract
    \/ WaitAttempt
    \/ WaitSleep
    \/ PublishWaitMeta
    \/ PublishReturn
    \/ AssertObjectExists
    \/ RegisterDryRun
    \/ RegisterSubmit
    \/ RegisterWaitForTransaction
    \/ RegisterExtract

Spec == Init /\ [][Next]_vars

(***************************************************************************)
(* What the call log holds.                                                *)
(***************************************************************************)
CallsOf(op) == {i \in 1..Len(calls) : calls[i].op = op}

\* submissions of a launch transaction
LaunchSubmits ==
    {i \in CallsOf("signAndExecuteTransaction") :
        calls[i].tx.commands = <<"SplitCoins", "MoveCall">>}

\* submissions of a publish transaction
PublishSubmits ==
    {i \in CallsOf("signAndExecuteTransaction") :
        calls[i].tx.commands = <<"Publish", "TransferObjects">>}

\* lookups of a configured object, by registerAsset
ConfigLookups == {i \in CallsOf("getObject") : calls[i].cfg # ""}

\* the steps of registerAsset
RegisterSteps ==
    {"assertObjectExists", "dryRun", "registerSubmit",
     "registerWaitForTransaction", "registerExtract"}

\* the dry-run reported status 'failure'
ReportedFailure == dryRun.effects \in {"failure", "failureString"}

(***************************************************************************)
(* C1  A dry-run that reports status 'failure' ends registerAsset with an  *)
(*     error: the flow is over (no step follows) and the call log holds no *)
(*     submission of the launch transaction.                               *)
(***************************************************************************)
C1_NoSubmitAfterFailedDryRun ==
    ReportedFailure =>
        /\ pc = "done"
        /\ error.op = "register"
        /\ error.kind \in {"NotAuthorized", "SimulationAbort"}
        /\ response.status = 500
        /\ LaunchSubmits = {}

\* a dry-run whose effects.status is the bare string 'failure' has ended the flow
C1_Witness == dryRun.effects = "failureString" /\ pc = "done"

(***************************************************************************)
(* C2  The launch transaction is submitted at most once; a submission      *)
(*     directly follows the dry-run of the very same transaction, made     *)
(*     after all six preflight lookups passed; once the dry-run has        *)
(*     reported success the next step makes the submission, and every      *)
(*     later step of registerAsset has exactly one submission behind it.   *)
(***************************************************************************)
C2_SubmittedExactlyOnce ==
    /\ [](/\ Cardinality(LaunchSubmits) <= 1
          /\ \A i \in LaunchSubmits :
                /\ i > 1
                /\ calls[i - 1].op = "devInspectTransactionBlock"
                /\ calls[i - 1].tx = calls[i].tx
                /\ calls[i].tx = LaunchTx(idolToken)
                /\ Cardinality(ConfigLookups) = 5
          /\ pc = "registerSubmit" =>
                /\ preflight = 6
                /\ ~ReportedFailure
                /\ LaunchSubmits = {}
          /\ (pc \in {"registerWaitForTransaction", "registerExtract"}
                \/ registered # NoRegistered) =>
                Cardinality(LaunchSubmits) = 1)
    /\ [][pc = "registerSubmit" /\ dryRun.effects = "success" =>
            Cardinality(LaunchSubmits') = 1]_vars

\* registerAsset has returned after a dry-run and one submission
C2_Witness ==
    /\ registered # NoRegistered
    /\ Cardinality(LaunchSubmits) = 1
    /\ Cardinality(CallsOf("devInspectTransactionBlock")) = 1

(***************************************************************************)
(* C3  The error text of a dry-run is effects.status.error when that is    *)
(*     defined and the top-level error otherwise.  A reported failure      *)
(*     whose error text contains the permission marker raises the          *)
(*     NotAuthorized error naming the signer; one whose text does not      *)
(*     contain it (or that has no text) raises the simulation-abort error  *)
(*     carrying the text; neither error is raised in any other case.       *)
(***************************************************************************)
C3_FailureClassified ==
    LET txt == IF dryRun.statusError.some THEN dryRun.statusError ELSE dryRun.error
        marked == txt.some /\ \E i \in 1..Len(txt.text) : txt.text[i] = "::config::is_allowed"
    IN  /\ (ReportedFailure /\ marked) =>
                error = Err("NotAuthorized", "register", SignerAddress, NoId, <<>>)
        /\ (ReportedFailure /\ ~marked) =>
                error = Err("SimulationAbort", "register", "", NoId,
                            IF txt.some THEN txt.text ELSE <<"unknown error">>)
        /\ error.kind \in {"NotAuthorized", "SimulationAbort"} => ReportedFailure

\* a failure whose marker stands in effects.status.error, after other text,
\* while the top-level error has none
C3_Witness ==
    /\ dryRun.effects = "failure"
    /\ dryRun.statusError = Text(<<"MoveAbort", "::config::is_allowed">>)
    /\ dryRun.error = Text(<<"MoveAbort">>)
    /\ error.kind = "NotAuthorized"

(***************************************************************************)
(* C4  When publishIdolTokenPackage has returned or thrown, the temporary  *)
(*     workspace directory it created does not exist.                      *)
(***************************************************************************)
C4_WorkspaceRemoved ==
    (pc = "done" \/ token # NoToken) => tmpDir # "exists"

(***************************************************************************)
(* C5  Before the launch transaction is simulated, registerAsset has       *)
(*     looked up the treasury capability and every configured object the   *)
(*     transaction passes as an object argument.                           *)
(***************************************************************************)
C5_EveryObjectArgumentLookedUp ==
    \A i \in CallsOf("devInspectTransactionBlock") :
        /\ \E j \in 1..(i - 1) :
                calls[j].op = "getObject" /\ calls[j].objId = calls[i].tx.treasuryCap
        /\ \A k \in 1..Len(calls[i].tx.objects) :
                \E j \in 1..(i - 1) :
                    calls[j].op = "getObject" /\ calls[j].cfg = calls[i].tx.objects[k]

(***************************************************************************)
(* C6  Every submission is followed, before any other ledger call, by a    *)
(*     waitForTransaction on the digest the submission returned: object    *)
(*     changes are read, objects looked up and values returned only after  *)
(*     that wait; a wait that fails ends the operation without a result.   *)
(***************************************************************************)
C6_IndexedBeforeUse ==
    /\ \A i \in CallsOf("signAndExecuteTransaction") :
            i < Len(calls) => calls[i + 1].op = "waitForTransaction"
    /\ \A i \in CallsOf("waitForTransaction") :
            i > 1 /\ calls[i - 1].op = "signAndExecuteTransaction"
    /\ pc \in {"publishExtract", "registerExtract"} =>
            /\ calls[Len(calls)].op = "waitForTransaction"
            /\ calls[Len(calls)].digest = result.digest
    /\ (pc \in {"publishExtract", "waitForObject", "publishWaitMeta", "publishReturn"}
            \/ extracted # NoToken \/ token # NoToken) =>
            \E i \in PublishSubmits : i < Len(calls) /\ calls[i + 1].op = "waitForTransaction"
    /\ \A i \in CallsOf("getObject") :
            \E j \in 1..(i - 1) : calls[j].op = "waitForTransaction"
    /\ registered # NoRegistered =>
            /\ calls[Len(calls)] = Call("waitForTransaction", NoId, "", registered.digest, NoTx)
            /\ Len(calls) - 1 \in LaunchSubmits
    /\ error.label = "waitForTransaction" =>
            /\ error.op = "publish" => extracted = NoToken /\ token = NoToken
            /\ registered = NoRegistered
            /\ response = [status |-> 500, error |-> error, token |-> NoToken,
                           registered |-> NoRegistered]

\* both transactions were submitted and waited for, each on its own digest
C6_Witness ==
    /\ pc = "registerExtract"
    /\ Len(calls) > 3
    /\ calls[2].op = "waitForTransaction"
    /\ calls[2].digest = "digestA"
    /\ calls[Len(calls)].digest = "digestB"

\* the records of a publish result that satisfy each of the three searches
PublishedRecords(changes) ==
    {k \in 1..Len(changes) : changes[k].type = "published"}

TreasuryCapRecords(changes) ==
    {k \in 1..Len(changes) :
        /\ changes[k].type \in {"created", "transferred"}
        /\ Includes(changes[k].objectType, TreasuryCapPattern)}

CoinMetadataRecords(changes) ==
    {k \in 1..Len(changes) :
        /\ changes[k].type \in {"created", "transferred"}
        /\ Includes(changes[k].objectType, CoinMetadataPattern)}

Lowest(ks) == CHOOSE i \in ks : \A j \in ks : i <= j

(***************************************************************************)
(* C7  (as stated) publishIdolTokenPackage goes on to return a token only  *)
(*     when the object changes hold exactly one published-package record,  *)
(*     exactly one treasury-capability record and exactly one              *)
(*     coin-metadata record, and raises the extraction error when one of   *)
(*     them is missing or not unique.                                      *)
(***************************************************************************)
C7_ExactlyOneOfEach ==
    [][pc = "publishExtract" =>
        LET ch == result.objectChanges
        IN  IF /\ Cardinality(PublishedRecords(ch)) = 1
               /\ Cardinality(TreasuryCapRecords(ch)) = 1
               /\ Cardinality(CoinMetadataRecords(ch)) = 1
            THEN pc' = "waitForObject" /\ extracted' # NoToken
            ELSE pc' = "done" /\ error'.kind = "ExtractionFailure"]_vars

(***************************************************************************)
(* C7  (amended) publishIdolTokenPackage goes on to return a token only    *)
(*     when the object changes hold at least one published-package record, *)
(*     at least one treasury-capability record and at least one            *)
(*     coin-metadata record; it takes the first of each, and the token it  *)
(*     returns carries those three; when one of them is missing it raises  *)
(*     the extraction error.                                               *)
(***************************************************************************)
C7_FirstOfEach ==
    /\ [][pc = "publishExtract" =>
            LET ch == result.objectChanges
            IN  IF /\ PublishedRecords(ch) # {}
                   /\ TreasuryCapRecords(ch) # {}
                   /\ CoinMetadataRecords(ch) # {}
                THEN /\ pc' = "waitForObject"
                     /\ extracted'.packageId = ch[Lowest(PublishedRecords(ch))].packageId
                     /\ extracted'.treasuryCapId = ch[Lowest(TreasuryCapRecords(ch))].objectId
                     /\ extracted'.coinMetadataId = ch[Lowest(CoinMetadataRecords(ch))].objectId
                ELSE /\ pc' = "done"
                     /\ extracted' = NoToken
                     /\ error' = Err("ExtractionFailure", "publish", "", NoId, <<>>)]_vars
    /\ [](token # NoToken =>
            /\ token.packageId = extracted.packageId
            /\ token.treasuryCapId = extracted.treasuryCapId
            /\ token.coinMetadataId = extracted.coinMetadataId
            /\ token.treasuryCapId # NoId
            /\ token.coinMetadataId # NoId)

\* a token was returned whose treasury capability was found in a record
\* reported as transferred and whose coin metadata in one reported as created
C7_Witness ==
    /\ token # NoToken
    /\ token.treasuryCapId.kind.type = "transferred"
    /\ token.coinMetadataId.kind.type = "created"

(***************************************************************************)
(* C8  A token is returned only after a lookup of its treasury capability  *)
(*     and one of its coin metadata each returned data, both made after    *)
(*     the publish transaction was indexed; when one of the two waits runs *)
(*     out of time the readiness-timeout error is raised and no token is   *)
(*     returned.                                                           *)
(***************************************************************************)
C8_ObjectsVisibleBeforeReturn ==
    /\ (pc = "publishReturn" \/ token # NoToken) =>
            /\ extracted.treasuryCapId \in confirmed
            /\ extracted.coinMetadataId \in confirmed
            /\ \E i, j \in CallsOf("getObject"), w \in CallsOf("waitForTransaction") :
                    /\ w < i /\ i < j
                    /\ w - 1 \in PublishSubmits
                    /\ calls[i].objId = extracted.treasuryCapId
                    /\ calls[j].objId = extracted.coinMetadataId
    /\ token # NoToken =>
            /\ token.treasuryCapId \in confirmed
            /\ token.coinMetadataId \in confirmed
    /\ error.kind = "ReadinessTimeout" =>
            /\ error.op = "publish"
            /\ wait.status = "timeout"
            /\ error.objId \notin confirmed
            /\ token = NoToken
            /\ pc = "done"
            /\ response.status = 500 /\ response.token = NoToken

\* the treasury capability became visible, the coin metadata never did
C8_Witness ==
    /\ wait.status = "timeout"
    /\ wait.label = "CoinMetadata"
    /\ extracted.treasuryCapId \in confirmed
    /\ error.kind = "ReadinessTimeout"

(***************************************************************************)
(* C9  waitForObject returns exactly when a lookup returned data; a lookup *)
(*     that throws or returns no data is followed by a sleep and another   *)
(*     lookup, and is never raised as such; when the deadline has passed   *)
(*     without a lookup returning data, the timeout error naming the label *)
(*     and the object id is raised.  Without arguments the deadline is     *)
(*     15000 ms and the sleep 500 ms.                                      *)
(***************************************************************************)
C9_WaitForObject ==
    /\ wait.status = "returned" => wait.gotData /\ wait.lastOutcome = "data"
    /\ wait.status \in {"lookup", "sleep", "timeout"} => ~wait.gotData
    /\ wait.status = "sleep" =>
            /\ wait.lastOutcome \in {"nodata", "throws"}
            /\ wait.elapsed < wait.timeoutMs
    /\ wait.status = "timeout" =>
            /\ wait.lastOutcome \in {"nodata", "throws"}
            /\ wait.elapsed >= wait.timeoutMs
            /\ pc = "done"
            /\ error = Err("ReadinessTimeout", "publish", wait.label, wait.id, <<>>)
    /\ wait.status \in {"lookup", "sleep", "timeout"} =>
            wait.timeoutMs = 15000 /\ wait.intervalMs = 500
    /\ pc = "waitForObject" => wait.status \in {"lookup", "sleep"}
    /\ (error.kind = "RpcError" /\ error.label = "getObject") => error.op = "register"

\* lookups kept throwing until the deadline passed
C9_Witness ==
    /\ wait.status = "timeout"
    /\ wait.lastOutcome = "throws"
    /\ wait.attempts > 2

(***************************************************************************)
(* C10 registerAsset is called only with a token that                      *)
(*     publishIdolTokenPackage returned, and with that token's package id, *)
(*     treasury capability id, module name, struct name and coin type;     *)
(*     when publishing fails, nothing of registerAsset happens.            *)
(***************************************************************************)
C10_RegisterReceivesPublishedToken ==
    /\ (pc \in RegisterSteps \/ idolToken # NoToken \/ preflight > 0
            \/ ConfigLookups # {} \/ CallsOf("devInspectTransactionBlock") # {}
            \/ LaunchSubmits # {} \/ registered # NoRegistered) =>
            /\ token # NoToken
            /\ idolToken.packageId = token.packageId
            /\ idolToken.treasuryCapId = token.treasuryCapId
            /\ idolToken.moduleName = token.moduleName
            /\ idolToken.structName = token.structName
            /\ idolToken.coinType = token.coinType
    /\ tx.typeArguments # <<>> =>
            tx.typeArguments = <<token.coinType>> /\ tx.treasuryCap = token.treasuryCapId
    /\ (error.op = "publish" \/ token = NoToken) =>
            /\ idolToken = NoToken
            /\ preflight = 0
            /\ registered = NoRegistered
            /\ ConfigLookups = {}
            /\ CallsOf("devInspectTransactionBlock") = {}
            /\ LaunchSubmits = {}

\* the launch transaction was built from the token of a ticker with
\* characters that sanitising removes
C10_Witness ==
    /\ pc = "registerSubmit"
    /\ request.ticker = <<"A", "$", "b">>
    /\ tx.typeArguments = <<token.coinType>>
    /\ idolToken.treasuryCapId = token.treasuryCapId

(***************************************************************************)
(* registerAsset called on its own, with a token of the caller's making    *)
(***************************************************************************)
\* idolToken arguments: the coin type is packageId::moduleName::structName,
\* names another package, lacks its last segment, or is empty
DirectTokens ==
    LET pkg == <<"0xpkg", "1">>
        other == <<"0xpkg", "2">>
        name == ModuleName(<<"a">>, 7)
        tcap == [kind |-> [type |-> "created", objectType |-> TreasuryCapType], n |-> 1]
    IN  {[packageId |-> pkg, treasuryCapId |-> tcap, coinMetadataId |-> NoId,
          moduleName |-> name, structName |-> StructName(name), coinType |-> ct] :
            ct \in {CoinType(pkg, name), CoinType(other, name),
                    pkg \o <<"::">> \o name, <<>>}}

InitRegister ==
    /\ pc = "assertObjectExists"
    /\ idolToken \in DirectTokens
    /\ request = NoRequest
    /\ moduleName = <<>>
    /\ tmpDir = "none"
    /\ compiled = FALSE
    /\ tx = NoTx
    /\ result = NoResult
    /\ extracted = NoToken
    /\ token = NoToken
    /\ wait = NoWait
    /\ preflight = 0
    /\ dryRun = NoDryRun
    /\ confirmed = {}
    /\ registered = NoRegistered
    /\ error = NoError
    /\ response = NoResponse
    /\ calls = <<>>
    /\ query = NoQuery
    /\ fetched = NoFetched
    /\ tasks = <<>>
    /\ answer = NoAnswer
    /\ publishers = NoPublishers
    /\ dirs = {}
    /\ previous = NoPrevious
    /\ poolsPackageId = PoolsPackageId

NextRegister ==
    \/ AssertObjectExists
    \/ RegisterDryRun
    \/ RegisterSubmit
    \/ RegisterWaitForTransaction
    \/ RegisterExtract

SpecRegister == InitRegister /\ [][NextRegister]_vars

\* the coin type is the type tag of the token's own package, module and struct
IsOwnTypeTag(t) ==
    t.coinType = t.packageId \o <<"::">> \o t.moduleName \o <<"::">> \o t.structName

(***************************************************************************)
(* C11 When the coin type of registerAsset's token is not the type tag     *)
(*     packageId::moduleName::structName of that token, registerAsset      *)
(*     neither simulates nor submits the launch transaction.               *)
(***************************************************************************)
C11_MalformedCoinTypeFailsFast ==
    (idolToken # NoToken /\ ~IsOwnTypeTag(idolToken)) =>
        /\ CallsOf("devInspectTransactionBlock") = {}
        /\ LaunchSubmits = {}

(***************************************************************************)
(* C19 When `sui --version` cannot be run, publishIdolTokenPackage ends at *)
(*     once with the tooling-unavailable error: no workspace was created,  *)
(*     no build was run, no ledger call was made, and the check is made    *)
(*     once.                                                               *)
(***************************************************************************)
C19_ToolingUnavailableFirst ==
    /\ [](error.kind = "ToolingUnavailable" =>
            /\ error.op = "publish"
            /\ pc = "done"
            /\ moduleName = <<>>
            /\ tmpDir = "none"
            /\ ~compiled
            /\ tx = NoTx
            /\ calls = <<>>
            /\ token = NoToken
            /\ response.status = 500)
    /\ [](pc \in {"idle", "ensureSuiAvailable"} =>
            tmpDir = "none" /\ ~compiled /\ calls = <<>>)
    /\ [][pc = "ensureSuiAvailable" =>
            \/ pc' = "materialize" /\ error' = NoError
            \/ pc' = "done" /\ error'.kind = "ToolingUnavailable"]_vars
    /\ [][pc' = "ensureSuiAvailable" => pc = "idle"]_vars

\* the launch ended with the tooling-unavailable error
C19_Witness ==
    /\ pc = "done"
    /\ error = Err("ToolingUnavailable", "publish", "", NoId, <<>>)
    /\ request.createParams

(***************************************************************************)
(* C20 When the build fails or its output cannot be parsed,                *)
(*     publishIdolTokenPackage ends with the one compilation-failure       *)
(*     error, which carries the diagnostic of what failed; the workspace   *)
(*     is removed and no transaction is submitted.                         *)
(***************************************************************************)
C20_CompilationFailureWrapped ==
    /\ [](error.kind = "CompilationFailure" =>
            /\ error.op = "publish"
            /\ error.label \in {"buildFailed", "unparsable"}
            /\ pc = "done"
            /\ tmpDir = "removed"
            /\ ~compiled
            /\ tx = NoTx
            /\ calls = <<>>
            /\ token = NoToken
            /\ response.status = 500 /\ response.error = error)
    /\ [][pc = "compile" =>
            \/ compiled' /\ pc' = "publishSubmit" /\ error' = NoError
            \/ ~compiled' /\ pc' = "done" /\ error'.kind = "CompilationFailure"]_vars
    /\ [](PublishSubmits # {} => compiled)

\* the build ran and its output could not be parsed
C20_Witness ==
    /\ pc = "done"
    /\ error.kind = "CompilationFailure"
    /\ error.label = "unparsable"
    /\ tmpDir = "removed"

(***************************************************************************)
(* Trade events and the figures computed from them                         *)
(***************************************************************************)
\* longest window of events the ledger returns
MaxEvents == 3

\* SUI_DECIMALS_FACTOR
SuiDecimalsFactor == 1000000000

\* the factor of Math.round(v * 1_000_000) / 1_000_000
RoundingFactor == 1000000

\* the value a string of decimal digits denotes, as BigInt(s) reads it
RECURSIVE ParseDigits(_)
ParseDigits(s) ==
    IF s = <<>> THEN 0
    ELSE 10 * ParseDigits(SubSeq(s, 1, Len(s) - 1))
            + (CHOOSE d \in 0..9 : DigitOf(d) = s[Len(s)])

(***************************************************************************)
(* JavaScript Numbers that hold integers.  A Number is a double: it holds  *)
(* every integer below 2^53 and, from 2^53 on, only the multiples of the   *)
(* spacing of its binade.  An integer hi * 2^53 + lo is written here as    *)
(* hi * Limb + lo, with lo between -Limb/2 and Limb/2.                     *)
(***************************************************************************)
\* what stands for 2^53 in the written form of an integer
Limb == 2 ^ 20

\* the decimal digits of 2^53
Two53Digits ==
    <<"9", "0", "0", "7", "1", "9", "9", "2", "5", "4", "7", "4", "0", "9", "9", "2">>

\* the integer a string of decimal digits denotes
DigitsValue(s) == IF s = Two53Digits THEN Limb ELSE ParseDigits(s)

\* the greatest power of two that is at most k, for k >= 1
RECURSIVE FloorPow2(_)
FloorPow2(k) == IF k < 2 THEN 1 ELSE 2 * FloorPow2(k \div 2)

\* the double nearest to the integer n >= 0, ties to the even significand
NearestDouble(n) ==
    LET hi == (n + Limb \div 2) \div Limb
        lo == n - hi * Limb
        e == FloorPow2(hi)
        \* the distance between neighbouring doubles around n
        ulp == IF hi = 0 THEN 1
               ELSE IF lo >= 0 \/ hi # e THEN 2 * e
               ELSE e
        q == lo \div ulp
        rem == lo - q * ulp
        down == hi * Limb + q * ulp
    IN  IF 2 * rem < ulp THEN down
        ELSE IF 2 * rem > ulp THEN down + ulp
        ELSE IF q % 2 = 0 THEN down ELSE down + ulp

\* the Number an integer is held as
ToNumber(n) == IF n >= 0 THEN NearestDouble(n) ELSE 0 - NearestDouble(0 - n)

\* parseInt(s) for a string of decimal digits
parseInt(s) == ToNumber(DigitsValue(s))

Curves == {"0xcurve1", "0xcurve2"}
Traders == {"0xA", "0xB"}

\* parsedJson of a TradeEvent; the amounts are decimal strings
TradeEvent(curve, trader, isBuy, x, y) ==
    [bonding_curve_id |-> curve, trader |-> trader, is_buy |-> isBuy,
     x_amount |-> NumberToString(x), y_amount |-> NumberToString(y)]

\* the events the ledger may hold
EventPool ==
    {TradeEvent("0xcurve1", "0xA", TRUE, 1500000000, 100),
     TradeEvent("0xcurve1", "0xA", FALSE, 500000000, 40),
     TradeEvent("0xcurve1", "0xB", TRUE, 1400, 10),
     TradeEvent("0xcurve1", "0xA", FALSE, 1800, 100),
     TradeEvent("0xcurve2", "0xB", FALSE, 500000000, 10)}

\* a caller asks for the volume or the holders of a curve (or of all curves):
\* getTradeEvents(bondingCurveId, limit) is called
TradeEventsRequest ==
    /\ pc = "idle"
    /\ \E op \in {"volume", "holders"}, curveId \in Curves \cup {""},
          limit \in 1..MaxEvents :
            query' = [NoQuery EXCEPT !.op = op, !.curveId = curveId, !.limit = limit]
    /\ pc' = "queryEvents"
    /\ UNCHANGED <<error, fetched, tasks, answer>>
    /\ UNCHANGED launchVars
    /\ UNCHANGED publishVars
    /\ UNCHANGED poolsPackageId
    /\ UNCHANGED previous

\* await this.client.queryEvents({query, limit, order: 'descending'}): the
\* ledger answers with at most `limit` events, newest first, or the call fails
QueryEvents ==
    /\ pc = "queryEvents"
    /\ calls' = LogCall(calls, Call("queryEvents", NoId, "", "", NoTx))
    /\ \/ /\ fetched' = [NoFetched EXCEPT !.fetch = "failed"]
          /\ pc' = "catchEvents"
       \/ \E data \in SeqsUpTo(EventPool, query.limit) :
            /\ fetched' = [NoFetched EXCEPT !.fetch = "ok", !.data = data]
            /\ pc' = "filterEvents"
    /\ UNCHANGED <<error, query, tasks, answer>>
    /\ UNCHANGED <<request, moduleName, tmpDir, compiled, tx, result, extracted, token,
                   idolToken, wait, preflight, dryRun, confirmed, registered, response>>
    /\ UNCHANGED publishVars
    /\ UNCHANGED poolsPackageId
    /\ UNCHANGED previous

\* events.data.filter(event => data.bonding_curve_id === bondingCurveId)
FilterByCurve(data, curveId) ==
    LET Matches(e) == e.bonding_curve_id = curveId
    IN  SelectSeq(data, Matches)

\* a result that is the window as fetched
FilteredEventsUnfiltered(data, curveId) == data

\* bondingCurveId ? events.data.filter(...) : events.data
FilteredEvents(data, curveId) ==
    IF curveId # "" THEN FilterByCurve(data, curveId) ELSE data

\* getTradeEvents returns filteredEvents
FilterEvents ==
    /\ pc = "filterEvents"
    /\ fetched' = [fetched EXCEPT !.returned = FilteredEvents(fetched.data, query.curveId)]
    /\ pc' = "aggregate"
    /\ UNCHANGED <<error, query, tasks, answer>>
    /\ UNCHANGED launchVars
    /\ UNCHANGED publishVars
    /\ UNCHANGED poolsPackageId
    /\ UNCHANGED previous

\* a catch block that asks the ledger again
CatchEventsRetry ==
    /\ pc = "catchEvents"
    /\ fetched' = NoFetched
    /\ pc' = "queryEvents"
    /\ UNCHANGED <<error, query, tasks, answer>>
    /\ UNCHANGED launchVars
    /\ UNCHANGED publishVars
    /\ UNCHANGED poolsPackageId
    /\ UNCHANGED previous

\* a catch block that throws the error of the query on to the caller
CatchEventsRethrows ==
    /\ pc = "catchEvents"
    /\ error' = Err("QueryFailed", "getTradeEvents", "", NoId, <<>>)
    /\ pc' = "statsCatch"
    /\ UNCHANGED <<query, fetched, tasks, answer>>
    /\ UNCHANGED launchVars
    /\ UNCHANGED publishVars
    /\ UNCHANGED poolsPackageId
    /\ UNCHANGED previous

\* catch (error) { console.error(...); return []; }
CatchEvents ==
    /\ pc = "catchEvents"
    /\ fetched' = [fetched EXCEPT !.returned = <<>>]
    /\ pc' = "aggregate"
    /\ UNCHANGED <<error, query, tasks, answer>>
    /\ UNCHANGED launchVars
    /\ UNCHANGED publishVars
    /\ UNCHANGED poolsPackageId
    /\ UNCHANGED previous

(***************************************************************************)
(* calculateVolume.  A volume is a number of SUI held exactly, as whole    *)
(* SUI and billionths of a SUI; a rounded volume is a number of millionths.*)
(***************************************************************************)
Zero == [whole |-> 0, nano |-> 0]

\* Number(BigInt(data.x_amount)) / decimalsFactor
HumanVolume(event) ==
    LET raw == ParseDigits(event.x_amount)
    IN  [whole |-> raw \div SuiDecimalsFactor, nano |-> raw % SuiDecimalsFactor]

\* volume += humanVolume
Plus(a, b) ==
    [whole |-> a.whole + b.whole + (a.nano + b.nano) \div SuiDecimalsFactor,
     nano |-> (a.nano + b.nano) % SuiDecimalsFactor]

\* Math.round(v * 1_000_000) / 1_000_000, in millionths
Round6(v) ==
    LET per == SuiDecimalsFactor \div RoundingFactor
    IN  v.whole * RoundingFactor + (v.nano + per \div 2) \div per

\* the body of events.forEach, applied to the events in order
RECURSIVE ForEachVolume(_, _)
ForEachVolume(evs, acc) ==
    IF evs = <<>> THEN acc
    ELSE LET data == Head(evs)
             humanVolume == HumanVolume(data)
         IN  ForEachVolume(Tail(evs),
                IF data.is_buy
                THEN [acc EXCEPT !.buyVolume = Plus(@, humanVolume),
                                 !.totalVolume = Plus(@, humanVolume)]
                ELSE [acc EXCEPT !.sellVolume = Plus(@, humanVolume),
                                 !.totalVolume = Plus(@, humanVolume)])

\* a count that leaves the sells out
calculateVolumeCountingBuys(evs) ==
    LET sums == ForEachVolume(evs, [totalVolume |-> Zero, buyVolume |-> Zero,
                                    sellVolume |-> Zero])
        IsBuy(e) == e.is_buy
    IN  [totalVolume |-> Round6(sums.totalVolume),
         buyVolume |-> Round6(sums.buyVolume),
         sellVolume |-> Round6(sums.sellVolume),
         transactionCount |-> Len(SelectSeq(evs, IsBuy))]

\* a total that leaves the sells out
calculateVolumeTotalOfBuys(evs) ==
    LET sums == ForEachVolume(evs, [totalVolume |-> Zero, buyVolume |-> Zero,
                                    sellVolume |-> Zero])
    IN  [totalVolume |-> Round6(sums.buyVolume),
         buyVolume |-> Round6(sums.buyVolume),
         sellVolume |-> Round6(sums.sellVolume),
         transactionCount |-> Len(evs)]

calculateVolume(evs) ==
    LET sums == ForEachVolume(evs, [totalVolume |-> Zero, buyVolume |-> Zero,
                                    sellVolume |-> Zero])
    IN  [totalVolume |-> Round6(sums.totalVolume),
         buyVolume |-> Round6(sums.buyVolume),
         sellVolume |-> Round6(sums.sellVolume),
         transactionCount |-> Len(evs)]

\* a read operation returned v
Returned(v) == [kind |-> "returned", value |-> v, error |-> NoError]

\* a read operation threw e
Threw(e) == [kind |-> "threw", value |-> <<>>, error |-> e]

\* suiBlockchainService.calculateVolume(events)
CalculateVolume ==
    /\ pc = "aggregate"
    /\ query.op = "volume"
    /\ answer' = Returned(calculateVolume(fetched.returned))
    /\ pc' = "done"
    /\ UNCHANGED <<error, query, fetched, tasks>>
    /\ UNCHANGED launchVars
    /\ UNCHANGED publishVars
    /\ UNCHANGED poolsPackageId
    /\ UNCHANGED previous

(***************************************************************************)
(* calculateHolders                                                        *)
(***************************************************************************)
\* [...events].reverse()
RECURSIVE Reverse(_)
Reverse(evs) ==
    IF evs = <<>> THEN <<>> ELSE Reverse(Tail(evs)) \o <<Head(evs)>>

\* the body of reversedEvents.forEach; balances maps the traders seen so far
RECURSIVE ForEachBalance(_, _)
ForEachBalance(evs, balances) ==
    IF evs = <<>> THEN balances
    ELSE LET data == Head(evs)
             trader == data.trader
             seen == IF trader \in DOMAIN balances /\ balances[trader] # 0
                     THEN balances
                     ELSE [t \in DOMAIN balances \cup {trader} |->
                            IF t = trader THEN 0 ELSE balances[t]]
             amount == parseInt(data.y_amount)
         IN  ForEachBalance(Tail(evs),
                [seen EXCEPT ![trader] = IF data.is_buy THEN ToNumber(@ + amount)
                                         ELSE ToNumber(@ - amount)])

\* no trader
NoBalances == [t \in {} |-> 0]

\* a selection that keeps every trader with a non-negative balance
HoldersOfNonNegative(balances) ==
    [t \in {u \in DOMAIN balances : balances[u] >= 0} |-> balances[t]]

\* for (const trader in balances) if (balances[trader] > 0) holders[trader] = ...
HoldersOf(balances) ==
    [t \in {u \in DOMAIN balances : balances[u] > 0} |-> balances[t]]

\* events.reverse(): the caller's array is reversed
ReversedInPlace(events) ==
    [events |-> Reverse(events), reversedEvents |-> Reverse(events)]

\* const reversedEvents = [...events].reverse(): a copy is reversed, and the
\* caller's array stays as it was
ReversedCopy(events) ==
    [events |-> events, reversedEvents |-> Reverse(events)]

calculateHolders(evs) ==
    HoldersOf(ForEachBalance(ReversedCopy(evs).reversedEvents, NoBalances))

\* suiBlockchainService.calculateHolders(events)
CalculateHolders ==
    /\ pc = "aggregate"
    /\ query.op = "holders"
    /\ answer' = Returned(calculateHolders(fetched.returned))
    /\ fetched' = [fetched EXCEPT !.returned = ReversedCopy(@).events]
    /\ pc' = "done"
    /\ UNCHANGED <<error, query, tasks>>
    /\ UNCHANGED launchVars
    /\ UNCHANGED publishVars
    /\ UNCHANGED poolsPackageId
    /\ UNCHANGED previous

(***************************************************************************)
(* The read-query adapters                                                 *)
(***************************************************************************)
\* the coin types a caller asks about
ReadCoinTypes ==
    {CoinType(<<"0xpkg", "1">>, ModuleName(<<"a">>, 7)),
     CoinType(<<"0xpkg", "2">>, ModuleName(<<"b">>, 7))}

\* the Move functions the adapters simulate
AdapterFunctions ==
    [price |-> "get_marginal_price", supply |-> "get_current_supply",
     reserve |-> "get_curve_liquidity_reserve", state |-> "get_curve_state"]

\* tx.moveCall({target: `${pkg}::${bcModule}::<fn>`,
\*              typeArguments: [quoteCoinType, idolCoinType],
\*              arguments: [tx.object(configId)]})
ReadTx(fn, coinType) ==
    [NoTx EXCEPT !.commands = <<fn>>,
                 !.typeArguments = <<<<"0x2::sui::SUI">>, coinType>>,
                 !.objects = <<"GLOBAL_CONFIG_ID">>]

\* di.results[0].returnValues: results or returnValues may be missing, the
\* array may be empty, or it holds values, of which bytes is the first one's
\* byte array
ReturnValues(shape, bytes) == [shape |-> shape, bytes |-> bytes]

ByteValues == 0..255

\* byte arrays of a lifecycle state
StatePayloads ==
    {<<>>} \cup {<<b>> : b \in ByteValues} \cup {<<2, 9>>, <<7, 0>>}

\* byte arrays of a u64 (3; 1000; 30000), and one that is too short
NumberPayloads ==
    {<<3, 0, 0, 0, 0, 0, 0, 0>>, <<232, 3, 0, 0, 0, 0, 0, 0>>,
     <<48, 117, 0, 0, 0, 0, 0, 0>>, <<1>>}

\* what devInspectTransactionBlock may answer a read with
DevInspectReads(payloads) ==
    {[returnValues |-> ReturnValues(shape, <<>>), statusError |-> se, error |-> e] :
        shape \in {"noResults", "noReturnValues", "empty"},
        se \in OptionalTexts, e \in {Undefined, Text(<<"MoveAbort">>)}}
    \cup
    {[returnValues |-> ReturnValues("values", bytes), statusError |-> Undefined,
      error |-> e] :
        bytes \in payloads, e \in {Undefined, Text(<<"MoveAbort">>)}}

\* a test that accepts an empty array of return values
LacksReturnValues(di) == di.returnValues.shape \in {"noResults", "noReturnValues"}

\* !rawReturn || !rawReturn.length
NoReturnPayload(di) == di.returnValues.shape # "values"

\* `No return value from <fn>. ${err ? 'DevInspect error: ' + err : ''}`
QueryEmptyResult(fn, di) ==
    LET err == DryRunError(di)
    IN  Err("QueryEmptyResult", fn, "", NoId,
            IF err.some /\ err.text # <<>>
            THEN <<"DevInspect error: ">> \o err.text ELSE <<>>)

\* view.getBigUint64(0, true): the first eight bytes, little-endian
RECURSIVE LittleEndian(_)
LittleEndian(bytes) ==
    IF bytes = <<>> THEN 0 ELSE Head(bytes) + 256 * LittleEndian(Tail(bytes))

\* valueBytes[0] mapped by the switch of parseBondingCurveState
StateOfByte(stateIndex) ==
    CASE stateIndex = 0 -> "Active"
      [] stateIndex = 1 -> "Paused"
      [] stateIndex = 2 -> "Completed"
      [] stateIndex = 3 -> "Graduated"
      [] OTHER -> "Unknown"

\* a decoder that numbers the states from one
parseBondingCurveStateFromOne(rawReturnValue) ==
    IF rawReturnValue.shape # "values" \/ rawReturnValue.bytes = <<>>
    THEN "Unknown"
    ELSE StateOfByte(rawReturnValue.bytes[1] - 1)

parseBondingCurveState(rawReturnValue) ==
    IF rawReturnValue.shape # "values" THEN "Unknown"
    ELSE IF rawReturnValue.bytes = <<>> THEN "Unknown"
    ELSE StateOfByte(rawReturnValue.bytes[1])

\* what an adapter that decodes a u64 does with di (price, supply)
DecodedAnswer(fn, di) ==
    IF NoReturnPayload(di) THEN Threw(QueryEmptyResult(fn, di))
    ELSE IF Len(di.returnValues.bytes) < 8
    THEN Threw(Err("RangeError", fn, "getBigUint64", NoId, <<>>))
    ELSE Returned(NumberToString(LittleEndian(SubSeq(di.returnValues.bytes, 1, 8))))

\* what getCurveLiquidityReserveForIdol does with di
RawAnswer(fn, di) ==
    IF NoReturnPayload(di) THEN Threw(QueryEmptyResult(fn, di))
    ELSE Returned(di.returnValues)

\* what getCurveStateForIdol does with di
StateAnswer(fn, di) ==
    IF NoReturnPayload(di) THEN Threw(QueryEmptyResult(fn, di))
    ELSE Returned(parseBondingCurveState(di.returnValues))

\* a caller calls one of the four adapters with a coin type; the adapter
\* builds its transaction and calls devInspectTransactionBlock
AdapterRequest ==
    /\ pc = "idle"
    /\ \E op \in DOMAIN AdapterFunctions, coinType \in ReadCoinTypes :
        /\ query' = [NoQuery EXCEPT !.op = op, !.coinTypes = <<coinType>>]
        /\ calls' = LogCall(calls, Call("devInspectTransactionBlock", NoId, "", "",
                                        ReadTx(AdapterFunctions[op], coinType)))
    /\ pc' = "devInspect"
    /\ UNCHANGED <<error, fetched, tasks, answer>>
    /\ UNCHANGED <<request, moduleName, tmpDir, compiled, tx, result, extracted, token,
                   idolToken, wait, preflight, dryRun, confirmed, registered, response>>
    /\ UNCHANGED publishVars
    /\ UNCHANGED poolsPackageId
    /\ UNCHANGED previous

\* the simulation's answer, kept while the adapter works on it
ReadSimulated(di) == [NoFetched EXCEPT !.fetch = "simulated", !.data = <<di>>]

\* getMarginalPriceForIdol, from the simulation's answer on
GetMarginalPriceForIdol ==
    /\ pc = "devInspect"
    /\ query.op = "price"
    /\ \E di \in DevInspectReads(NumberPayloads) :
        /\ fetched' = ReadSimulated(di)
        /\ answer' = DecodedAnswer(AdapterFunctions.price, di)
    /\ pc' = "done"
    /\ UNCHANGED <<error, query, tasks>>
    /\ UNCHANGED launchVars
    /\ UNCHANGED publishVars
    /\ UNCHANGED poolsPackageId
    /\ UNCHANGED previous

\* getCurrentSupplyForIdol, from the simulation's answer on
GetCurrentSupplyForIdol ==
    /\ pc = "devInspect"
    /\ query.op = "supply"
    /\ \E di \in DevInspectReads(NumberPayloads) :
        /\ fetched' = ReadSimulated(di)
        /\ answer' = DecodedAnswer(AdapterFunctions.supply, di)
    /\ pc' = "done"
    /\ UNCHANGED <<error, query, tasks>>
    /\ UNCHANGED launchVars
    /\ UNCHANGED publishVars
    /\ UNCHANGED poolsPackageId
    /\ UNCHANGED previous

\* getCurveLiquidityReserveForIdol, from the simulation's answer on
GetCurveLiquidityReserveForIdol ==
    /\ pc = "devInspect"
    /\ query.op = "reserve"
    /\ \E di \in DevInspectReads(NumberPayloads) :
        /\ fetched' = ReadSimulated(di)
        /\ answer' = RawAnswer(AdapterFunctions.reserve, di)
    /\ pc' = "done"
    /\ UNCHANGED <<error, query, tasks>>
    /\ UNCHANGED launchVars
    /\ UNCHANGED publishVars
    /\ UNCHANGED poolsPackageId
    /\ UNCHANGED previous

\* getCurveStateForIdol, from the simulation's answer on
GetCurveStateForIdol ==
    /\ pc = "devInspect"
    /\ query.op = "state"
    /\ \E di \in DevInspectReads(StatePayloads) :
        /\ fetched' = ReadSimulated(di)
        /\ answer' = StateAnswer(AdapterFunctions.state, di)
    /\ pc' = "done"
    /\ UNCHANGED <<error, query, tasks>>
    /\ UNCHANGED launchVars
    /\ UNCHANGED publishVars
    /\ UNCHANGED poolsPackageId
    /\ UNCHANGED previous

(***************************************************************************)
(* computeMarketCaps                                                       *)
(***************************************************************************)
\* longest list of coin types asked about at once
MaxCoinTypes == 2

\* what the ledger may answer a task's simulation with
TaskReads ==
    {di \in DevInspectReads(NumberPayloads) :
        /\ di.statusError = Undefined
        /\ \/ di.returnValues.shape = "empty"
           \/ /\ di.returnValues.shape = "values"
              /\ di.error = Undefined
              /\ di.returnValues.bytes[1] # 48}

\* a task as coinTypes.map starts it: getMarginalPriceForIdol was called and
\* awaits its simulation
StartedTask(coinType) ==
    [coinType |-> coinType, stage |-> "price", price |-> <<>>, entry |-> NoAnswer]

\* parseFloat(priceString) / SUI_DECIMALS_FACTOR and the like, then
\* toFixed(9): the figures in billionths
SuccessEntry(coinType, priceString, supplyString) ==
    LET price == ParseDigits(priceString)
        supply == ParseDigits(supplyString)
    IN  [coinType |-> coinType, shape |-> "success",
         price |-> price, circulatingSupply |-> supply,
         marketCap |-> (price * supply + SuiDecimalsFactor \div 2) \div SuiDecimalsFactor,
         error |-> NoError]

\* { coinType, error: message }
ErrorEntry(coinType, e) ==
    [coinType |-> coinType, shape |-> "error", price |-> 0, circulatingSupply |-> 0,
     marketCap |-> 0, error |-> e]

\* a coin type is not yet answered
NoEntry == ErrorEntry(<<>>, NoError)

\* a service that keeps its tasks from one call to the next
ComputeMarketCapsKeepingTasks ==
    /\ pc = "idle"
    /\ \E coinTypes \in SeqsUpTo(ReadCoinTypes, MaxCoinTypes) :
        /\ query' = [NoQuery EXCEPT !.op = "marketCaps", !.coinTypes = coinTypes]
        /\ tasks' = [i \in 1..Len(coinTypes) |->
                        [StartedTask(coinTypes[i]) EXCEPT !.entry = NoEntry]] \o tasks
        /\ calls' = calls \o
                    [i \in 1..Len(coinTypes) |->
                        Call("devInspectTransactionBlock", NoId, "", "",
                             ReadTx(AdapterFunctions.price, coinTypes[i]))]
    /\ pc' = "marketCaps"
    /\ UNCHANGED <<error, fetched, answer>>
    /\ UNCHANGED <<request, moduleName, tmpDir, compiled, tx, result, extracted, token,
                   idolToken, wait, preflight, dryRun, confirmed, registered, response>>
    /\ UNCHANGED publishVars
    /\ UNCHANGED poolsPackageId
    /\ UNCHANGED previous

\* a caller calls computeMarketCaps(coinTypes): every task runs up to its
\* first await, in the order of the list
ComputeMarketCaps ==
    /\ pc = "idle"
    /\ \E coinTypes \in SeqsUpTo(ReadCoinTypes, MaxCoinTypes) :
        /\ query' = [NoQuery EXCEPT !.op = "marketCaps", !.coinTypes = coinTypes]
        /\ tasks' = [i \in 1..Len(coinTypes) |->
                        [StartedTask(coinTypes[i]) EXCEPT !.entry = NoEntry]]
        /\ calls' = calls \o
                    [i \in 1..Len(coinTypes) |->
                        Call("devInspectTransactionBlock", NoId, "", "",
                             ReadTx(AdapterFunctions.price, coinTypes[i]))]
    /\ pc' = "marketCaps"
    /\ UNCHANGED <<error, fetched, answer>>
    /\ UNCHANGED <<request, moduleName, tmpDir, compiled, tx, result, extracted, token,
                   idolToken, wait, preflight, dryRun, confirmed, registered, response>>
    /\ UNCHANGED publishVars
    /\ UNCHANGED poolsPackageId
    /\ UNCHANGED previous

\* a task whose price query failed and that ends the whole batch
PriceSettlesFailFast ==
    /\ pc = "marketCaps"
    /\ \E i \in 1..Len(tasks), di \in TaskReads :
        /\ tasks[i].stage = "price"
        /\ LET a == DecodedAnswer(AdapterFunctions.price, di) IN
            IF a.kind = "threw"
            THEN /\ tasks' = [k \in 1..Len(tasks) |->
                                [tasks[k] EXCEPT !.stage = "settled",
                                    !.entry = IF k = i
                                              THEN ErrorEntry(tasks[i].coinType, a.error)
                                              ELSE @]]
                 /\ calls' = calls
            ELSE /\ tasks' = [tasks EXCEPT ![i].stage = "supply", ![i].price = a.value]
                 /\ calls' = Append(calls,
                        Call("devInspectTransactionBlock", NoId, "", "",
                             ReadTx(AdapterFunctions.supply, tasks[i].coinType)))
    /\ UNCHANGED <<pc, error, query, fetched, answer>>
    /\ UNCHANGED <<request, moduleName, tmpDir, compiled, tx, result, extracted, token,
                   idolToken, wait, preflight, dryRun, confirmed, registered, response>>
    /\ UNCHANGED publishVars
    /\ UNCHANGED poolsPackageId
    /\ UNCHANGED previous

\* a task that asks for the supply whatever the price query gave
PriceSettlesQueryingSupply(i, di) ==
    /\ pc = "marketCaps"
    /\ tasks[i].stage = "price"
    /\ LET a == DecodedAnswer(AdapterFunctions.price, di) IN
        /\ tasks' = IF a.kind = "threw"
                    THEN [tasks EXCEPT ![i].stage = "settled",
                            ![i].entry = ErrorEntry(tasks[i].coinType, a.error)]
                    ELSE [tasks EXCEPT ![i].stage = "supply", ![i].price = a.value]
        /\ calls' = Append(calls,
                Call("devInspectTransactionBlock", NoId, "", "",
                     ReadTx(AdapterFunctions.supply, tasks[i].coinType)))
    /\ UNCHANGED <<pc, error, query, fetched, answer>>
    /\ UNCHANGED <<request, moduleName, tmpDir, compiled, tx, result, extracted, token,
                   idolToken, wait, preflight, dryRun, confirmed, registered, response>>
    /\ UNCHANGED publishVars
    /\ UNCHANGED poolsPackageId

\* the simulation of some task's price query ends: the task goes on to
\* getCurrentSupplyForIdol, or its catch block makes the error entry
PriceSettlesWith(i, di) ==
    /\ pc = "marketCaps"
    /\ tasks[i].stage = "price"
    /\ LET a == DecodedAnswer(AdapterFunctions.price, di) IN
        IF a.kind = "threw"
        THEN /\ tasks' = [tasks EXCEPT ![i].stage = "settled",
                            ![i].entry = ErrorEntry(tasks[i].coinType, a.error)]
             /\ calls' = calls
        ELSE /\ tasks' = [tasks EXCEPT ![i].stage = "supply", ![i].price = a.value]
             /\ calls' = Append(calls,
                    Call("devInspectTransactionBlock", NoId, "", "",
                         ReadTx(AdapterFunctions.supply, tasks[i].coinType)))
    /\ UNCHANGED <<pc, error, query, fetched, answer>>
    /\ UNCHANGED <<request, moduleName, tmpDir, compiled, tx, result, extracted, token,
                   idolToken, wait, preflight, dryRun, confirmed, registered, response>>
    /\ UNCHANGED publishVars
    /\ UNCHANGED poolsPackageId

\* the price query of some task ends, with whatever the ledger answers
PriceSettles ==
    /\ \E i \in 1..Len(tasks), di \in TaskReads : PriceSettlesWith(i, di)
    /\ UNCHANGED previous

\* the simulation of some task's supply query ends: the task returns its
\* success entry, or its catch block makes the error entry
SupplySettlesWith(i, di) ==
    /\ pc = "marketCaps"
    /\ tasks[i].stage = "supply"
    /\ LET a == DecodedAnswer(AdapterFunctions.supply, di) IN
        tasks' = [tasks EXCEPT ![i].stage = "settled", ![i].price = <<>>,
                    ![i].entry = IF a.kind = "threw"
                                 THEN ErrorEntry(tasks[i].coinType, a.error)
                                 ELSE SuccessEntry(tasks[i].coinType,
                                                   tasks[i].price, a.value)]
    /\ UNCHANGED <<pc, error, query, fetched, answer>>
    /\ UNCHANGED launchVars
    /\ UNCHANGED publishVars
    /\ UNCHANGED poolsPackageId

\* the supply query of some task ends, with whatever the ledger answers
SupplySettles ==
    /\ \E i \in 1..Len(tasks), di \in TaskReads : SupplySettlesWith(i, di)
    /\ UNCHANGED previous

\* Promise.all(tasks) resolves once every task has settled, with the tasks'
\* values in the order of the tasks
MarketCapsResolve ==
    /\ pc = "marketCaps"
    /\ \A i \in 1..Len(tasks) : tasks[i].stage = "settled"
    /\ answer' = Returned([i \in 1..Len(tasks) |-> tasks[i].entry])
    /\ pc' = "done"
    /\ UNCHANGED <<error, query, fetched, tasks>>
    /\ UNCHANGED launchVars
    /\ UNCHANGED publishVars
    /\ UNCHANGED poolsPackageId
    /\ UNCHANGED previous

NextRead ==
    \/ TradeEventsRequest
    \/ QueryEvents
    \/ FilterEvents
    \/ CatchEvents
    \/ CalculateVolume
    \/ CalculateHolders
    \/ AdapterRequest
    \/ GetMarginalPriceForIdol
    \/ GetCurrentSupplyForIdol
    \/ GetCurveLiquidityReserveForIdol
    \/ GetCurveStateForIdol
    \/ ComputeMarketCaps
    \/ PriceSettles
    \/ SupplySettles
    \/ MarketCapsResolve

SpecRead == Init /\ [][NextRead]_vars

(***************************************************************************)
(* C12 computeMarketCaps never rejects; when it resolves, its value has    *)
(*     one entry per coin type asked about, the i-th entry for the i-th    *)
(*     coin type, whatever the order in which the queries ended; a query   *)
(*     that ends changes the task it belongs to and no other, and a        *)
(*     settled task keeps its entry; once every query has ended the batch  *)
(*     resolves.                                                           *)
(***************************************************************************)
C12_AllSettleInOrder ==
    /\ [](query.op = "marketCaps" =>
            /\ answer.kind # "threw"
            /\ Len(tasks) = Len(query.coinTypes)
            /\ \A i \in 1..Len(tasks) :
                /\ tasks[i].coinType = query.coinTypes[i]
                /\ tasks[i].stage = "settled" =>
                    /\ tasks[i].entry.coinType = query.coinTypes[i]
                    /\ tasks[i].entry.shape \in {"success", "error"}
                    /\ tasks[i].entry.shape = "error" <=> tasks[i].entry.error # NoError
            /\ pc = "done" =>
                /\ answer.kind = "returned"
                /\ Len(answer.value) = Len(query.coinTypes)
                /\ \A i \in 1..Len(query.coinTypes) :
                    /\ tasks[i].stage = "settled"
                    /\ answer.value[i] = tasks[i].entry
                    /\ answer.value[i].coinType = query.coinTypes[i])
    /\ [][pc = "marketCaps" =>
            \A i \in 1..Len(tasks) :
                /\ tasks[i].stage = "settled" => tasks'[i] = tasks[i]
                /\ tasks'[i] # tasks[i] =>
                    \A j \in 1..Len(tasks) : j # i => tasks'[j] = tasks[j]]_vars
    /\ (query.op = "marketCaps" ~> pc = "done")

\* the second coin type's supply query was issued before the first's; the
\* first coin type's entry is an error, the second's a success
C12_Witness ==
    /\ pc = "done"
    /\ query.op = "marketCaps"
    /\ Len(query.coinTypes) = 2
    /\ query.coinTypes[1] # query.coinTypes[2]
    /\ Len(calls) = 4
    /\ calls[3].tx.typeArguments[2] = query.coinTypes[2]
    /\ calls[4].tx.typeArguments[2] = query.coinTypes[1]
    /\ answer.value[1].shape = "error"
    /\ answer.value[2].shape = "success"

\* every query the ledger was asked ends, and a batch whose tasks have all
\* settled resolves
SpecReadLive ==
    /\ SpecRead
    /\ WF_vars(PriceSettles)
    /\ WF_vars(SupplySettles)
    /\ WF_vars(MarketCapsResolve)

(***************************************************************************)
(* C13 When the event query fails, getTradeEvents returns the empty        *)
(*     sequence and throws nothing, and the ledger is asked only once.     *)
(***************************************************************************)
C13_QueryFailureGivesNoEvents ==
    /\ [](fetched.fetch = "failed" =>
            /\ fetched.returned = <<>>
            /\ answer.kind # "threw"
            /\ error = NoError
            /\ Cardinality(CallsOf("queryEvents")) = 1)
    /\ [][pc = "catchEvents" =>
            /\ pc' = "aggregate"
            /\ fetched'.fetch = "failed" /\ fetched'.returned = <<>>]_vars
    /\ [](Cardinality(CallsOf("queryEvents")) <= 1)

\* the aggregate of a failed query has been computed from no events
C13_Witness ==
    /\ pc = "done"
    /\ fetched.fetch = "failed"
    /\ query.op = "volume"
    /\ answer.kind = "returned"
    /\ answer.value.transactionCount = 0

\* r is w with some elements left out
IsSubsequence(r, w) ==
    \E f \in [1..Len(r) -> 1..Len(w)] :
        /\ \A i \in 1..Len(r) : r[i] = w[f[i]]
        /\ \A i, j \in 1..Len(r) : i < j => f[i] < f[j]

(***************************************************************************)
(* C14 With a curve id, what getTradeEvents returns is the fetched window  *)
(*     with exactly the events of other curves left out, in the window's   *)
(*     order; without one it is the window itself.  The window, and so the *)
(*     result, has at most `limit` events.                                 *)
(***************************************************************************)
C14_FilterIsSubsequence ==
    (fetched.fetch = "ok" /\ pc \in {"aggregate", "done"}) =>
        LET w == fetched.data
            r == fetched.returned
        IN  /\ Len(w) <= query.limit
            /\ Len(r) <= Len(w)
            /\ IF query.curveId = "" THEN r = w
               ELSE /\ \A i \in 1..Len(r) : r[i].bonding_curve_id = query.curveId
                    /\ IsSubsequence(r, w)
                    /\ Len(r) = Cardinality({i \in 1..Len(w) :
                                    w[i].bonding_curve_id = query.curveId})

\* a window of three events of which the filter kept the first and the last
C14_Witness ==
    /\ pc = "aggregate"
    /\ query.curveId = "0xcurve1"
    /\ Len(fetched.data) = 3
    /\ fetched.data[2].bonding_curve_id = "0xcurve2"
    /\ fetched.returned = <<fetched.data[1], fetched.data[3]>>
    /\ fetched.data[1] # fetched.data[3]

\* the sum of the x_amount of the events at the positions in idx, in
\* millionths of a SUI, rounded to the nearest
RoundedSum(evs, idx) ==
    LET Whole[k \in 0..Len(evs)] ==
            IF k = 0 THEN 0
            ELSE Whole[k - 1] + (IF k \in idx
                                 THEN ParseDigits(evs[k].x_amount) \div 1000000000 ELSE 0)
        Nano[k \in 0..Len(evs)] ==
            IF k = 0 THEN 0
            ELSE Nano[k - 1] + (IF k \in idx
                                THEN ParseDigits(evs[k].x_amount) % 1000000000 ELSE 0)
    IN  Whole[Len(evs)] * 1000000 + (Nano[Len(evs)] + 500) \div 1000

NetBalance(evs, trader) ==
    LET Net[k \in 0..Len(evs)] ==
            IF k = 0 THEN 0
            ELSE Net[k - 1] + (IF evs[k].trader # trader THEN 0
                               ELSE IF evs[k].is_buy THEN DigitsValue(evs[k].y_amount)
                               ELSE 0 - DigitsValue(evs[k].y_amount))
    IN  Net[Len(evs)]

(***************************************************************************)
(* C16 calculateHolders returns a map that holds a trader exactly when the *)
(*     trader's buys less the trader's sells, in y_amount, is positive,    *)
(*     and maps the trader to that difference.                             *)
(***************************************************************************)
C16_HoldersArePositiveNets ==
    (pc = "done" /\ query.op = "holders") =>
        /\ answer.kind = "returned"
        /\ DOMAIN answer.value \subseteq Traders
        /\ \A t \in Traders :
            /\ t \in DOMAIN answer.value <=> NetBalance(fetched.returned, t) > 0
            /\ t \in DOMAIN answer.value =>
                    answer.value[t] = NetBalance(fetched.returned, t)

\* buy(A, 100), sell(A, 40), buy(B, 10), fetched newest first
C16_Witness ==
    /\ pc = "done"
    /\ query.op = "holders"
    /\ fetched.returned =
            <<TradeEvent("0xcurve1", "0xB", TRUE, 1400, 10),
              TradeEvent("0xcurve1", "0xA", FALSE, 500000000, 40),
              TradeEvent("0xcurve1", "0xA", TRUE, 1500000000, 100)>>
    /\ DOMAIN answer.value = {"0xA", "0xB"}
    /\ answer.value["0xA"] = 60
    /\ answer.value["0xB"] = 10

(***************************************************************************)
(* C17 The lifecycle state is decoded from the first byte of the payload:  *)
(*     0 Active, 1 Paused, 2 Completed, 3 Graduated, any other byte        *)
(*     Unknown, an empty payload Unknown; decoding never throws.           *)
(***************************************************************************)
C17_StateDecodingTotal ==
    (pc = "done" /\ query.op = "state"
        /\ fetched.data[1].returnValues.shape = "values") =>
        LET bytes == fetched.data[1].returnValues.bytes
        IN  /\ answer.kind = "returned"
            /\ answer.value \in {"Active", "Paused", "Completed", "Graduated", "Unknown"}
            /\ answer.value = "Active" <=> (bytes # <<>> /\ bytes[1] = 0)
            /\ answer.value = "Paused" <=> (bytes # <<>> /\ bytes[1] = 1)
            /\ answer.value = "Completed" <=> (bytes # <<>> /\ bytes[1] = 2)
            /\ answer.value = "Graduated" <=> (bytes # <<>> /\ bytes[1] = 3)

\* the byte 255 was decoded
C17_Witness ==
    /\ pc = "done"
    /\ query.op = "state"
    /\ fetched.data[1].returnValues = ReturnValues("values", <<255>>)
    /\ answer.value = "Unknown"

(***************************************************************************)
(* C18 An adapter whose simulation has no return payload (no results, no   *)
(*     returnValues, or none in the array) throws the empty-result error   *)
(*     and returns nothing; the error's message holds the simulation's     *)
(*     error text (effects.status.error if defined, the top-level error    *)
(*     otherwise) when there is one; the error is thrown in no other case. *)
(***************************************************************************)
C18_EmptyResultThrows ==
    (pc = "done" /\ query.op \in {"price", "supply", "reserve", "state"}) =>
        LET di == fetched.data[1]
            txt == IF di.statusError.some THEN di.statusError ELSE di.error
            empty == di.returnValues.shape \in {"noResults", "noReturnValues", "empty"}
        IN  /\ empty =>
                /\ answer.kind = "threw"
                /\ answer.error.kind = "QueryEmptyResult"
                /\ answer.error.op = AdapterFunctions[query.op]
                /\ (txt.some /\ txt.text # <<>>) =>
                        answer.error.text = <<"DevInspect error: ">> \o txt.text
                /\ ~(txt.some /\ txt.text # <<>>) => answer.error.text = <<>>
            /\ answer.error.kind = "QueryEmptyResult" => empty
            /\ answer.kind \in {"returned", "threw"}

\* the reserve adapter got an empty array of return values and an error text
C18_Witness ==
    /\ pc = "done"
    /\ query.op = "reserve"
    /\ fetched.data[1].returnValues.shape = "empty"
    /\ fetched.data[1].statusError = Text(<<"MoveAbort", "::config::is_allowed">>)
    /\ answer.error.text = <<"DevInspect error: ", "MoveAbort", "::config::is_allowed">>

\* the id of the first created record of result.objectChanges whose type
\* holds the pattern, NoId when there is none
FirstCreated(pattern) ==
    LET ch == result.objectChanges
        ks == {k \in 1..Len(ch) :
                ch[k].type = "created" /\ Includes(ch[k].objectType, pattern)}
    IN  IF ks = {} THEN NoId ELSE ch[Lowest(ks)].objectId

(***************************************************************************)
(* C21 Once the launch transaction is submitted and indexed, registerAsset *)
(*     throws the pool error when no created record is a pool, the curve   *)
(*     error when there is a pool and no created record is a curve, and    *)
(*     returns otherwise: the pool's and the curve's id, the ids of the    *)
(*     liquidity-provider capability and of the creator's coin or          *)
(*     undefined for each that was not created, and the digest of the      *)
(*     submitted transaction.                                              *)
(***************************************************************************)
C21_RegisterExtraction ==
    /\ [][pc = "registerExtract" =>
            /\ pc' = "done"
            /\ FirstCreated(IAOPattern) = NoId =>
                    /\ error'.kind = "PoolMissing"
                    /\ registered' = NoRegistered
            /\ (FirstCreated(IAOPattern) # NoId /\ FirstCreated(BondingCurvePattern) = NoId) =>
                    /\ error'.kind = "CurveMissing"
                    /\ registered' = NoRegistered
            /\ (FirstCreated(IAOPattern) # NoId /\ FirstCreated(BondingCurvePattern) # NoId) =>
                    /\ error' = NoError
                    /\ registered' =
                        [digest |-> result.digest,
                         poolId |-> FirstCreated(IAOPattern),
                         bondingCurveId |-> FirstCreated(BondingCurvePattern),
                         lpCapId |-> FirstCreated(LPCapPattern),
                         creatorTokensId |-> FirstCreated(CoinPattern)]]_vars
    /\ [](registered # NoRegistered =>
            /\ registered.poolId # NoId
            /\ registered.bondingCurveId # NoId
            /\ registered.digest \in Digests
            /\ \E i \in CallsOf("waitForTransaction") :
                /\ calls[i].digest = registered.digest
                /\ \E j \in LaunchSubmits : j < i)

\* registerAsset returned with neither a capability nor a creator's coin
C21_Witness ==
    /\ pc = "done"
    /\ registered # NoRegistered
    /\ registered.lpCapId = NoId
    /\ registered.creatorTokensId = NoId
    /\ response.status = 200

\* the steps that call the ledger once
SingleCallSteps ==
    {"publishSubmit", "publishWaitForTransaction", "assertObjectExists", "dryRun",
     "registerSubmit", "registerWaitForTransaction"}

(***************************************************************************)
(* C25 Nothing is tried again after it failed: the build, the submission   *)
(*     of the publish transaction, the simulation and the submission of    *)
(*     the launch transaction are each made at most once, every step that  *)
(*     calls the ledger calls it once, and an error ends the flow; only    *)
(*     waitForObject repeats its lookup.                                   *)
(***************************************************************************)
C25_NoSilentRetry ==
    /\ [](/\ Cardinality(PublishSubmits) <= 1
          /\ Cardinality(LaunchSubmits) <= 1
          /\ Cardinality(CallsOf("devInspectTransactionBlock")) <= 1
          /\ CallsOf("signAndExecuteTransaction") = PublishSubmits \cup LaunchSubmits)
    /\ [][/\ pc = "compile" => pc' \in {"publishSubmit", "done"}
          /\ pc' = "compile" => pc = "materialize"
          /\ pc' = "materialize" => pc = "ensureSuiAvailable"
          /\ pc' = "ensureSuiAvailable" => pc = "idle"
          /\ pc' = "idle" => pc = "idle"]_vars
    /\ [][(pc \in SingleCallSteps) =>
            /\ Len(calls') = Len(calls) + 1
            /\ (pc' # pc \/ pc = "assertObjectExists")]_vars
    /\ [][error' # NoError => pc' = "done"]_vars
    /\ [][pc = "done" => FALSE]_vars
    /\ [][(pc' = pc /\ calls' = calls) => pc = "waitForObject"]_vars

\* the submission of the launch transaction threw; it was made once
C25_Witness ==
    /\ pc = "done"
    /\ error.kind = "RpcError"
    /\ error.op = "register"
    /\ error.label = "signAndExecuteTransaction"
    /\ Cardinality(LaunchSubmits) = 1
    /\ Cardinality(PublishSubmits) = 1

(***************************************************************************)
(* C29 The transaction that publishIdolTokenPackage submits is made of     *)
(*     the compiled modules' publish command and of one transfer, to the   *)
(*     address of the service's own key, and of nothing else; no submitted *)
(*     transaction transfers to another address.                           *)
(***************************************************************************)
C29_PublishTxTwoCommands ==
    /\ [][pc = "publishSubmit" =>
            /\ compiled
            /\ Len(calls') = Len(calls) + 1
            /\ LET c == calls'[Len(calls')] IN
                /\ c.op = "signAndExecuteTransaction"
                /\ c.tx = tx'
                /\ c.tx.commands = <<"Publish", "TransferObjects">>
                /\ c.tx.recipient = SignerAddress
                /\ c.tx.typeArguments = <<>>
                /\ c.tx.objects = <<>>
                /\ c.tx.treasuryCap = NoId]_vars
    /\ [](\A i \in 1..Len(calls) : calls[i].tx.recipient \in {"", SignerAddress})

\* the publish transaction was submitted
C29_Witness ==
    /\ pc = "publishWaitForTransaction"
    /\ Len(calls) = 1
    /\ calls[1].tx.commands = <<"Publish", "TransferObjects">>
    /\ calls[1].tx.recipient = SignerAddress

LaunchResponseServer(t, r) ==
    [status |-> 200, error |-> NoError, token |-> t,
     registered |-> [r EXCEPT !.bondingCurveId = NoId]]

\* registerAsset returns to the handler of server.ts
RegisterExtractServer ==
    /\ pc = "registerExtract"
    /\ LET r == RegisteredAsset(result) IN
        IF r.poolId = NoId
        THEN /\ HandlerCatch(Err("PoolMissing", "register", "", NoId, <<>>))
             /\ UNCHANGED registered
        ELSE IF r.bondingCurveId = NoId
        THEN /\ HandlerCatch(Err("CurveMissing", "register", "", NoId, <<>>))
             /\ UNCHANGED registered
        ELSE /\ registered' = r
             /\ response' = LaunchResponseServer(token, r)
             /\ pc' = "done"
             /\ UNCHANGED error
    /\ UNCHANGED <<request, moduleName, tmpDir, compiled, tx, result, extracted,
                   token, idolToken, wait, preflight, dryRun, confirmed, calls>>
    /\ UNCHANGED readVars
    /\ UNCHANGED publishVars
    /\ UNCHANGED poolsPackageId
    /\ UNCHANGED previous

NextServer ==
    \/ LaunchRequest
    \/ EnsureSuiAvailable
    \/ MaterializeWorkspace
    \/ CompilePackage
    \/ PublishSubmit
    \/ PublishWaitForTransaction
    \/ PublishExtract
    \/ WaitAttempt
    \/ WaitSleep
    \/ PublishWaitMeta
    \/ PublishReturn
    \/ AssertObjectExists
    \/ RegisterDryRun
    \/ RegisterSubmit
    \/ RegisterWaitForTransaction
    \/ RegisterExtractServer

SpecServer == Init /\ [][NextServer]_vars

(***************************************************************************)
(* C24 The launch endpoint answers a request once: with 400 and without    *)
(*     calling publish or register when idolId or createParams is missing, *)
(*     with 500 when publish or register threw, and with 200 only when     *)
(*     both returned; the 200 body holds what publish returned and the     *)
(*     pool's id, the curve's id, the digest and the optional ids that     *)
(*     register returned.                                                  *)
(***************************************************************************)
C24_OneResponsePerRequest ==
    /\ (response # NoResponse) <=> (pc = "done")
    /\ pc = "done" =>
        /\ response.status \in {200, 400, 500}
        /\ response.status = 400 <=> (~request.idolId \/ ~request.createParams)
        /\ response.status = 400 =>
                /\ calls = <<>>
                /\ tmpDir = "none"
                /\ token = NoToken
                /\ error = NoError
        /\ response.status = 500 <=> error # NoError
        /\ response.status = 500 => response.error = error
        /\ response.status = 200 =>
                /\ token # NoToken
                /\ registered # NoRegistered
                /\ response.token = token
                /\ response.registered.poolId = registered.poolId
                /\ response.registered.bondingCurveId = registered.bondingCurveId
                /\ response.registered.digest = registered.digest
                /\ response.registered.lpCapId = registered.lpCapId
                /\ response.registered.creatorTokensId = registered.creatorTokensId

(***************************************************************************)
(* The names publishIdolTokenPackage derives, for every ticker of a        *)
(* bounded length.                                                         *)
(***************************************************************************)
\* longest ticker
MaxTickerLen == 2

\* the characters of a ticker
TickerChars == LowerLetters \cup UpperLetters \cup DigitChars \cup OtherChars \cup {"_"}

\* the handler has called publishIdolTokenPackage and `sui --version` ran
InitModuleId ==
    /\ pc = "materialize"
    /\ \E ticker \in SeqsUpTo(TickerChars, MaxTickerLen) :
        request = [idolId |-> TRUE, createParams |-> TRUE, ticker |-> ticker]
    /\ moduleName = <<>>
    /\ tmpDir = "none"
    /\ compiled = FALSE
    /\ tx = NoTx
    /\ result = NoResult
    /\ extracted = NoToken
    /\ token = NoToken
    /\ idolToken = NoToken
    /\ wait = NoWait
    /\ preflight = 0
    /\ dryRun = NoDryRun
    /\ confirmed = {}
    /\ registered = NoRegistered
    /\ error = NoError
    /\ response = NoResponse
    /\ calls = <<>>
    /\ query = NoQuery
    /\ fetched = NoFetched
    /\ tasks = <<>>
    /\ answer = NoAnswer
    /\ publishers = NoPublishers
    /\ dirs = {}
    /\ previous = NoPrevious
    /\ poolsPackageId = PoolsPackageId

NextModuleId == MaterializeWorkspace

SpecModuleId == InitModuleId /\ [][NextModuleId]_vars

\* the characters [A-Za-z0-9_] among those a ticker is made of
AllowedChars == {"a", "b", "A", "B", "_", "0", "1", "2", "3", "4", "5", "6", "7", "8", "9"}

\* the characters a module identifier may hold
LowerIdentChars ==
    {"a", "b", "i", "d", "o", "l", "_", "0", "1", "2", "3", "4", "5", "6", "7", "8", "9"}

\* t without its characters outside [A-Za-z0-9_], its letters lower-cased
Sanitized(t) ==
    LET kept == {i \in 1..Len(t) : t[i] \in AllowedChars}
        Nth(j) == CHOOSE i \in kept : Cardinality({k \in kept : k <= i}) = j
        Lower(c) == IF c = "A" THEN "a" ELSE IF c = "B" THEN "b" ELSE c
    IN  [j \in 1..Cardinality(kept) |-> Lower(t[Nth(j)])]

\* u is s with its letters upper-cased
IsUpperCased(u, s) ==
    LET Upper(c) ==
            CASE c = "a" -> "A" [] c = "b" -> "B" [] c = "i" -> "I"
              [] c = "d" -> "D" [] c = "o" -> "O" [] c = "l" -> "L"
              [] OTHER -> c
    IN  /\ Len(u) = Len(s)
        /\ \A j \in 1..Len(s) : u[j] = Upper(s[j])

(***************************************************************************)
(* C23 The module identifier is idol_, the sanitized ticker, an            *)
(*     underscore and the timestamp in decimal digits, the sanitized       *)
(*     ticker being the ticker without its characters outside              *)
(*     [A-Za-z0-9_], lower-cased; it holds lower-case letters, digits and  *)
(*     underscores only, and the struct name is the module identifier      *)
(*     upper-cased.                                                        *)
(***************************************************************************)
C23_ModuleIdentifier ==
    moduleName # <<>> =>
        /\ \E now \in Timestamps :
            moduleName = <<"i", "d", "o", "l", "_">> \o Sanitized(request.ticker) \o <<"_">>
                            \o (IF now = 7 THEN <<"7">> ELSE <<"1", "2">>)
        /\ \A i \in 1..Len(moduleName) : moduleName[i] \in LowerIdentChars
        /\ IsUpperCased(StructName(moduleName), moduleName)

\* the ticker $B at time 12
C23_Witness ==
    /\ request.ticker = <<"$", "B">>
    /\ moduleName = <<"i", "d", "o", "l", "_", "b", "_", "1", "2">>
    /\ StructName(moduleName) = <<"I", "D", "O", "L", "_", "B", "_", "1", "2">>

\* sum of byte[i] * 256^i for i in 0..7
U64Value(bytes) ==
    bytes[1] + 256 * (bytes[2] + 256 * (bytes[3] + 256 * (bytes[4] + 256 *
        (bytes[5] + 256 * (bytes[6] + 256 * (bytes[7] + 256 * bytes[8]))))))

(***************************************************************************)
(* C27 The price, supply and liquidity-reserve adapters each return the    *)
(*     first element of the raw return payload decoded as a little-endian  *)
(*     unsigned 64-bit integer (the price and the supply as its decimal    *)
(*     string), for every 8-byte payload.                                  *)
(***************************************************************************)
C27_AdaptersDecodeU64 ==
    (/\ pc = "done"
     /\ query.op \in {"price", "supply", "reserve"}
     /\ fetched.fetch = "simulated"
     /\ fetched.data[1].returnValues.shape = "values"
     /\ Len(fetched.data[1].returnValues.bytes) = 8)
    => /\ answer.kind = "returned"
       \* compared as printed, the values being of different shapes
       /\ ToString(answer.value)
            = ToString(NumberToString(U64Value(fetched.data[1].returnValues.bytes)))

(***************************************************************************)
(* waitForObject on its own, for several timeouts and intervals            *)
(***************************************************************************)
\* the options { timeoutMs, intervalMs } of a call, the defaults among them
WaitTimeouts == {0, 1200, DefaultTimeoutMs}
WaitIntervals == {DefaultIntervalMs, 700}

\* waitForObject has been called and is about to make its first lookup
InitWait ==
    /\ pc = "waitForObject"
    /\ \E t \in WaitTimeouts, i \in WaitIntervals :
        wait = [StartWait([NoId EXCEPT !.n = 1], "TreasuryCap", "publishWaitMeta")
                    EXCEPT !.timeoutMs = t, !.intervalMs = i]
    /\ request = NoRequest
    /\ moduleName = <<>>
    /\ tmpDir = "none"
    /\ compiled = FALSE
    /\ tx = NoTx
    /\ result = NoResult
    /\ extracted = NoToken
    /\ token = NoToken
    /\ idolToken = NoToken
    /\ preflight = 0
    /\ dryRun = NoDryRun
    /\ confirmed = {}
    /\ registered = NoRegistered
    /\ error = NoError
    /\ response = NoResponse
    /\ calls = <<>>
    /\ query = NoQuery
    /\ fetched = NoFetched
    /\ tasks = <<>>
    /\ answer = NoAnswer
    /\ publishers = NoPublishers
    /\ dirs = {}
    /\ previous = NoPrevious
    /\ poolsPackageId = PoolsPackageId

NextWait == WaitAttempt \/ WaitSleep

SpecWait == InitWait /\ [][NextWait]_vars

\* every lookup returns or throws, and the timer of the sleep fires
SpecWaitLive == SpecWait /\ WF_vars(WaitAttempt) /\ WF_vars(WaitSleep)

\* ceil(a / b), b positive
CeilDiv(a, b) == (a + b - 1) \div b

(***************************************************************************)
(* C28 waitForObject terminates: with timeout T and interval I it makes    *)
(*     at least one and at most ceil(T / I) + 1 lookups, and then returns  *)
(*     or raises the timeout error.                                        *)
(***************************************************************************)
C28_WaitTerminates ==
    \* the lookup about to be made is at most the (ceil(T / I) + 1)-th
    /\ [](pc = "waitForObject" =>
            wait.attempts <= CeilDiv(wait.timeoutMs, wait.intervalMs))
    \* the loop is left by a lookup, with a return or the timeout error
    /\ [][(pc = "waitForObject" /\ pc' # "waitForObject") =>
            /\ wait.status = "lookup"
            /\ CallsOf("getObject") = {} => Len(calls') = 1 /\ calls'[1].op = "getObject"
            /\ \/ wait'.status = "returned" /\ pc' = wait.ret /\ error' = NoError
               \/ /\ wait'.status = "timeout"
                  /\ wait'.attempts \in 1..(CeilDiv(wait.timeoutMs, wait.intervalMs) + 1)
                  /\ error'.kind = "ReadinessTimeout"]_vars
    /\ (pc = "waitForObject") ~> (pc # "waitForObject")

\* the deadline passes at the last lookup the bound allows: timeout 1200,
\* interval 500, four lookups
C28_Witness ==
    /\ wait.status = "timeout"
    /\ wait.timeoutMs = 1200
    /\ wait.intervalMs = DefaultIntervalMs
    /\ wait.attempts = 4
    /\ wait.elapsed = 1500

(***************************************************************************)
(* Concurrent invocations of publishIdolTokenPackage.  An invocation runs  *)
(* without interruption between two awaits: from the end of                *)
(* ensureSuiAvailable to the start of the build, and from the end of the   *)
(* build through catch and finally.                                        *)
(***************************************************************************)
Publishers == 1..MaxPublishers

\* the random characters mkdtempSync may append: more than there are
\* workspaces at a time
Suffixes == 1..(MaxPublishers + 1)

\* path.join(os.tmpdir(), `sui-build-${uniqueId}-`)
TmpPrefix(uniqueId) == <<"sui-build-">> \o uniqueId \o <<"-">>

\* a workspace named by the prefix alone
MkdirPrefix(prefix, existing) == {[prefix |-> prefix, suffix |-> 0]}

\* fs.mkdtempSync(prefix): a directory that did not exist is created, its name
\* the prefix and random characters
MkdtempSync(prefix, existing) ==
    {[prefix |-> prefix, suffix |-> x] : x \in Suffixes} \ existing

Others ==
    /\ UNCHANGED <<pc, error, previous, poolsPackageId>>
    /\ UNCHANGED launchVars
    /\ UNCHANGED readVars

\* publishIdolTokenPackage(params) is called and awaits `sui --version`
PublisherCalled(p) ==
    /\ publishers[p].pc = "idle"
    /\ \E ticker \in Tickers :
        publishers' = [publishers EXCEPT ![p].pc = "ensureSuiAvailable",
                                         ![p].ticker = ticker]
    /\ UNCHANGED dirs
    /\ Others

\* ensureSuiAvailable ends; if it resolved, the names are derived, the
\* workspace is built by the four file-system calls (failedAt is the first
\* that throws, 0: none) and the build is started
PublisherMaterializes(p) ==
    /\ publishers[p].pc = "ensureSuiAvailable"
    /\ \/ /\ publishers' = [publishers EXCEPT ![p].pc = "failed"]
          /\ UNCHANGED dirs
       \/ \E now \in Timestamps, failedAt \in 0..Len(FsSteps) :
            LET uniqueId == UniqueId(publishers[p].ticker, now) IN
            IF failedAt = 1
            THEN /\ publishers' = [publishers EXCEPT ![p].pc = "failed",
                                                     ![p].now = now,
                                                     ![p].uniqueId = uniqueId]
                 /\ UNCHANGED dirs
            ELSE \E dir \in MkdtempSync(TmpPrefix(uniqueId), dirs) :
                    /\ dirs' = dirs \cup {dir}
                    /\ publishers' =
                        [publishers EXCEPT
                            ![p].pc = IF failedAt = 0 THEN "compiling" ELSE "failed",
                            ![p].now = now,
                            ![p].uniqueId = uniqueId,
                            ![p].tmpDir = dir]
    /\ Others

\* the build ends; catch (when it or JSON.parse failed) and finally remove
\* the invocation's tmpDir, if it exists
PublisherCompiled(p) ==
    /\ publishers[p].pc = "compiling"
    /\ \E outcome \in {"ok", "buildFailed", "unparsable"} :
        publishers' = [publishers EXCEPT
                        ![p].pc = IF outcome = "ok" THEN "built" ELSE "failed"]
    /\ dirs' = dirs \ {publishers[p].tmpDir}
    /\ Others

CallPublish == \E p \in Publishers : PublisherCalled(p)

Materialize == \E p \in Publishers : PublisherMaterializes(p)

EndBuild == \E p \in Publishers : PublisherCompiled(p)

NextPublishers == CallPublish \/ Materialize \/ EndBuild

SpecPublishers == Init /\ [][NextPublishers]_vars

\* the invocation has a workspace it builds in
Compiling(p) == publishers[p].pc = "compiling"

(***************************************************************************)
(* C26 In every interleaving of concurrent publishIdolTokenPackage         *)
(*     invocations, two launches of one ticker in one timestamp tick among *)
(*     them, no two invocations build in the same temporary directory, and *)
(*     the directory an invocation builds in exists until that invocation  *)
(*     itself removes it.                                                  *)
(***************************************************************************)
C26_WorkspacesNotShared ==
    /\ [](\A p, q \in Publishers :
            (p # q /\ Compiling(p) /\ Compiling(q))
                => publishers[p].tmpDir # publishers[q].tmpDir)
    /\ [](\A p \in Publishers : Compiling(p) => publishers[p].tmpDir \in dirs)
    /\ [][\A p \in Publishers :
            (Compiling(p) /\ publishers[p].tmpDir \notin dirs')
                => publishers'[p].pc \in {"built", "failed"}]_vars

\* two invocations of one ticker in one tick are building, and the first
\* invocation's build ends while the second is still building
C26_Witness ==
    /\ publishers[1].pc = "built"
    /\ Compiling(2)
    /\ publishers[1].uniqueId = publishers[2].uniqueId
    /\ publishers[1].tmpDir # publishers[2].tmpDir
    /\ publishers[1].tmpDir \notin dirs
    /\ publishers[2].tmpDir \in dirs

(***************************************************************************)
(* A read operation invoked twice, the ledger answering the second         *)
(* invocation as it answered the first                                     *)
(***************************************************************************)
\* the operation returned; the caller invokes it again
InvokeAgain ==
    /\ pc = "done"
    /\ query.op # ""
    /\ ~previous.set
    /\ previous' = [previous EXCEPT !.set = TRUE, !.query = query,
                                    !.fetched = fetched, !.answer = answer]
    /\ pc' = "idle"
    /\ UNCHANGED error
    /\ UNCHANGED readVars
    /\ UNCHANGED launchVars
    /\ UNCHANGED publishVars
    /\ UNCHANGED poolsPackageId

\* the second invocation has the arguments of the first
SameQuery == previous.set => query' = previous.query

\* the ledger answers the second invocation as it answered the first
SameResponse ==
    previous.set => /\ fetched'.fetch = previous.fetched.fetch
                    /\ fetched'.data = previous.fetched.data

TradeEventsRequested == TradeEventsRequest /\ SameQuery

EventsQueried == QueryEvents /\ SameResponse

AdapterRequested == AdapterRequest /\ SameQuery

PriceSimulated == GetMarginalPriceForIdol /\ SameResponse

SupplySimulated == GetCurrentSupplyForIdol /\ SameResponse

ReserveSimulated == GetCurveLiquidityReserveForIdol /\ SameResponse

StateSimulated == GetCurveStateForIdol /\ SameResponse

MarketCapsRequested == ComputeMarketCaps /\ SameQuery

\* what the ledger answers a task of the first invocation with: no value,
\* or a u64
RepeatedReads ==
    {di \in TaskReads :
        /\ di.error = Undefined
        /\ di.returnValues.shape = "values" => Len(di.returnValues.bytes) = 8}

\* the first invocation: the ledger's answer to a task's query is kept
PriceSettlesFirst ==
    /\ ~previous.set
    /\ \E i \in 1..Len(tasks), di \in RepeatedReads :
        /\ PriceSettlesWith(i, di)
        /\ previous' = [previous EXCEPT !.reads = (<<i, "price">> :> di) @@ @]

SupplySettlesFirst ==
    /\ ~previous.set
    /\ \E i \in 1..Len(tasks), di \in RepeatedReads :
        /\ SupplySettlesWith(i, di)
        /\ previous' = [previous EXCEPT !.reads = (<<i, "supply">> :> di) @@ @]

\* the second invocation: the ledger gives the answer it gave to the same
\* query of the first
PriceSettlesAgain ==
    /\ previous.set
    /\ \E i \in 1..Len(tasks) :
        /\ <<i, "price">> \in DOMAIN previous.reads
        /\ PriceSettlesWith(i, previous.reads[<<i, "price">>])
    /\ UNCHANGED previous

SupplySettlesAgain ==
    /\ previous.set
    /\ \E i \in 1..Len(tasks) :
        /\ <<i, "supply">> \in DOMAIN previous.reads
        /\ SupplySettlesWith(i, previous.reads[<<i, "supply">>])
    /\ UNCHANGED previous

NextReadTwice ==
    \/ TradeEventsRequested
    \/ EventsQueried
    \/ FilterEvents
    \/ CatchEvents
    \/ CalculateVolume
    \/ CalculateHolders
    \/ AdapterRequested
    \/ PriceSimulated
    \/ SupplySimulated
    \/ ReserveSimulated
    \/ StateSimulated
    \/ MarketCapsRequested
    \/ PriceSettlesFirst
    \/ SupplySettlesFirst
    \/ PriceSettlesAgain
    \/ SupplySettlesAgain
    \/ MarketCapsResolve
    \/ InvokeAgain

SpecReadTwice == Init /\ [][NextReadTwice]_vars

(***************************************************************************)
(* C22 The read-query adapters (price, supply, reserve, lifecycle state,   *)
(*     market-cap batch) and the event aggregator never call               *)
(*     signAndExecuteTransaction, only simulations and event queries; and  *)
(*     an operation invoked twice against the same ledger responses gives  *)
(*     equal results.                                                      *)
(***************************************************************************)
C22_ReadsNeverSignAndRepeat ==
    /\ \A i \in 1..Len(calls) :
        calls[i].op \in {"devInspectTransactionBlock", "queryEvents"}
    /\ CallsOf("signAndExecuteTransaction") = {}
    /\ (pc = "done" /\ previous.set) => answer = previous.answer

\* a batch of two coin types was computed twice, with a success entry and
\* an error entry
C22_Witness ==
    /\ pc = "done"
    /\ previous.set
    /\ query.op = "marketCaps"
    /\ answer.kind = "returned"
    /\ Len(answer.value) = 2
    /\ answer.value[1].shape = "success"
    /\ answer.value[2].shape = "error"
    /\ Len(calls) = 6

(***************************************************************************)
(* The names two invocations of publishIdolTokenPackage derive             *)
(***************************************************************************)
\* the characters of the two tickers
NameChars == {"a", "A", "$", "_", "1"}

\* two invocations have been called, each with a ticker, and `sui --version`
\* ran for both
InitNames ==
    /\ \E t1, t2 \in SeqsUpTo(NameChars, MaxTickerLen) :
        publishers =
            [p \in Publishers |->
                IF p = 1 THEN [NoPublisher EXCEPT !.pc = "ensureSuiAvailable", !.ticker = t1]
                ELSE IF p = 2
                THEN [NoPublisher EXCEPT !.pc = "ensureSuiAvailable", !.ticker = t2]
                ELSE NoPublisher]
    /\ pc = "idle"
    /\ request = NoRequest
    /\ moduleName = <<>>
    /\ tmpDir = "none"
    /\ compiled = FALSE
    /\ tx = NoTx
    /\ result = NoResult
    /\ extracted = NoToken
    /\ token = NoToken
    /\ idolToken = NoToken
    /\ wait = NoWait
    /\ preflight = 0
    /\ dryRun = NoDryRun
    /\ confirmed = {}
    /\ registered = NoRegistered
    /\ error = NoError
    /\ response = NoResponse
    /\ calls = <<>>
    /\ query = NoQuery
    /\ fetched = NoFetched
    /\ tasks = <<>>
    /\ answer = NoAnswer
    /\ dirs = {}
    /\ previous = NoPrevious
    /\ poolsPackageId = PoolsPackageId

\* sanitizedTicker, uniqueId and moduleName of an invocation, at its Date.now()
DerivesNames(p) ==
    /\ publishers[p].pc = "ensureSuiAvailable"
    /\ \E now \in Timestamps :
        publishers' = [publishers EXCEPT ![p].pc = "named", ![p].now = now,
                                         ![p].uniqueId = UniqueId(publishers[p].ticker, now)]
    /\ moduleName' = ModuleName(publishers[p].ticker, publishers'[p].now)
    /\ UNCHANGED <<pc, error, previous, dirs, poolsPackageId>>
    /\ UNCHANGED <<request, tmpDir, compiled, tx, result, extracted, token, idolToken,
                   wait, preflight, dryRun, confirmed, registered, response, calls>>
    /\ UNCHANGED readVars

NextNames == \E p \in Publishers : DerivesNames(p)

SpecNames == InitNames /\ [][NextNames]_vars

\* the module identifier of an invocation that has derived its names
ModuleNameOf(p) == ModuleName(publishers[p].ticker, publishers[p].now)

(***************************************************************************)
(* C31 Two publish invocations get distinct module identifiers (and so     *)
(*     distinct struct names and coin types) whenever their sanitized      *)
(*     tickers differ or their timestamps differ, and the same module      *)
(*     identifier when both are the same.                                  *)
(***************************************************************************)
C31_ModuleIdentifiersDistinct ==
    (publishers[1].pc = "named" /\ publishers[2].pc = "named") =>
        LET same == /\ Sanitized(publishers[1].ticker) = Sanitized(publishers[2].ticker)
                    /\ publishers[1].now = publishers[2].now
        IN  /\ (ModuleNameOf(1) = ModuleNameOf(2)) <=> same
            /\ (StructName(ModuleNameOf(1)) = StructName(ModuleNameOf(2))) <=> same
            /\ (CoinType(<<"0xpkg">>, ModuleNameOf(1)) = CoinType(<<"0xpkg">>, ModuleNameOf(2)))
                    <=> same
            /\ moduleName \in {ModuleNameOf(1), ModuleNameOf(2)}

\* the tickers A$ and a in one millisecond: one module identifier
C31_Witness ==
    /\ publishers[1].pc = "named"
    /\ publishers[2].pc = "named"
    /\ publishers[1].ticker = <<"A", "$">>
    /\ publishers[2].ticker = <<"a">>
    /\ publishers[1].now = publishers[2].now
    /\ ModuleNameOf(1) = ModuleNameOf(2)

\* the supply queries issued for a coin type
SupplyCallsOf(coinType) ==
    {k \in CallsOf("devInspectTransactionBlock") :
        calls[k].tx = ReadTx(AdapterFunctions.supply, coinType)}

\* the tasks of a coin type whose price query has succeeded
PricedTasksOf(coinType) ==
    {i \in 1..Len(tasks) :
        /\ tasks[i].coinType = coinType
        /\ \/ tasks[i].stage = "supply"
           \/ /\ tasks[i].stage = "settled"
              /\ \/ tasks[i].entry.shape = "success"
                 \/ tasks[i].entry.error.op = AdapterFunctions.supply}

(***************************************************************************)
(* C32 Every element computeMarketCaps returns is a success entry (price,  *)
(*     circulatingSupply, marketCap, no error) or an error entry (an error *)
(*     and none of the three figures); the supply query of a coin type is  *)
(*     issued only after its price query has succeeded, so a price failure *)
(*     gives the error entry without a supply query.                       *)
(***************************************************************************)
C32_EntryShapesAndQueryOrder ==
    /\ []((pc = "done" /\ query.op = "marketCaps") =>
            \A i \in 1..Len(answer.value) :
                LET e == answer.value[i] IN
                /\ e.coinType = query.coinTypes[i]
                /\ \/ /\ e.shape = "success"
                      /\ e.error = NoError
                      /\ e.marketCap =
                            (e.price * e.circulatingSupply + SuiDecimalsFactor \div 2)
                                \div SuiDecimalsFactor
                   \/ /\ e.shape = "error"
                      /\ e.error # NoError
                      /\ e.price = 0 /\ e.circulatingSupply = 0 /\ e.marketCap = 0)
    /\ [](query.op = "marketCaps" =>
            \A coinType \in ReadCoinTypes :
                Cardinality(SupplyCallsOf(coinType)) = Cardinality(PricedTasksOf(coinType)))
    /\ [][(query.op = "marketCaps" /\ Len(calls') > Len(calls)) =>
            \E i \in 1..Len(tasks) :
                /\ tasks[i].stage = "price"
                /\ tasks'[i].stage = "supply"
                /\ calls' = Append(calls,
                        Call("devInspectTransactionBlock", NoId, "", "",
                             ReadTx(AdapterFunctions.supply, tasks[i].coinType)))]_vars

\* of two coin types, the price query of the first failed and the second
\* has its figures: one supply query was issued
C32_Witness ==
    /\ pc = "done"
    /\ query.op = "marketCaps"
    /\ Len(answer.value) = 2
    /\ query.coinTypes[1] # query.coinTypes[2]
    /\ answer.value[1].shape = "error"
    /\ answer.value[1].error.op = AdapterFunctions.price
    /\ answer.value[2].shape = "success"
    /\ SupplyCallsOf(query.coinTypes[1]) = {}
    /\ Cardinality(SupplyCallsOf(query.coinTypes[2])) = 1

\* the dry-run result holds an error text, in effects.status.error or at
\* the top level
CarriesErrorText ==
    \/ dryRun.statusError.some /\ dryRun.statusError.text # <<>>
    \/ dryRun.error.some /\ dryRun.error.text # <<>>

(***************************************************************************)
(* C33 registerAsset does not submit the launch transaction when the       *)
(*     dry-run result carries an error text, be it in effects.status.error *)
(*     or only at the top level with no effects status.                    *)
(***************************************************************************)
C33_NoSubmitAfterDryRunError ==
    [][CarriesErrorText =>
        \A i \in 1..Len(calls') :
            i > Len(calls) => calls'[i].op # "signAndExecuteTransaction"]_vars

\* the errors of registerAsset raised while it reads the result
ExtractionErrors == {"PoolMissing", "CurveMissing"}

\* the errors of registerAsset raised by the preflight lookups and the dry-run
EarlyErrors == {"PreflightMissingObject", "NotAuthorized", "SimulationAbort"}

(***************************************************************************)
(* C34 registerAsset raises the pool-missing or curve-missing error only   *)
(*     after the launch transaction was submitted and waited for, so an    *)
(*     error of registerAsset may come with a transaction executed; the    *)
(*     preflight and dry-run errors are raised only before any submission  *)
(*     of it.                                                              *)
(***************************************************************************)
C34_ExtractionErrorsAfterSubmission ==
    /\ [](error.kind \in ExtractionErrors =>
            /\ error.op = "register"
            /\ Cardinality(LaunchSubmits) = 1
            /\ \A i \in LaunchSubmits :
                /\ i + 1 = Len(calls)
                /\ calls[i + 1].op = "waitForTransaction")
    /\ [](error.kind \in EarlyErrors => LaunchSubmits = {})
    /\ [][(error'.kind \in ExtractionErrors /\ error.kind \notin ExtractionErrors)
            => pc = "registerExtract"]_vars
    /\ [][(error'.kind \in EarlyErrors /\ error.kind \notin EarlyErrors)
            => pc \in {"assertObjectExists", "dryRun"}]_vars

\* the launch transaction was executed and created no bonding curve:
\* registerAsset ends with an error
C34_Witness ==
    /\ pc = "done"
    /\ error.kind = "CurveMissing"
    /\ LaunchSubmits # {}
    /\ response.status = 500

(***************************************************************************)
(* calculateVolume and calculateHolders applied to a list of events and    *)
(* then to the same events in another order                                *)
(***************************************************************************)
\* events whose y_amount reaches 2^53 raw units and whose x_amount goes down
\* to less than half a millionth of a SUI
LargeEventPool ==
    {[TradeEvent("0xcurve1", "0xA", TRUE, 1500000000, 0)
        EXCEPT !.y_amount = Two53Digits],
     TradeEvent("0xcurve1", "0xA", TRUE, 400, 1),
     TradeEvent("0xcurve1", "0xA", FALSE, 400, 1),
     TradeEvent("0xcurve1", "0xB", FALSE, 500000000, 10)}

\* the lists that hold the elements of evs, each as often as evs holds it
PermutationsOf(evs) ==
    {[i \in 1..Len(evs) |-> evs[p[i]]] : p \in Permutations(1..Len(evs))}

\* calculateVolume or calculateHolders is about to be called with a list of
\* events
InitOrders ==
    /\ pc = "aggregate"
    /\ \E op \in {"volume", "holders"} :
        query = [NoQuery EXCEPT !.op = op, !.limit = MaxEvents]
    /\ \E evs \in SeqsUpTo(LargeEventPool, MaxEvents) :
        fetched = [NoFetched EXCEPT !.fetch = "ok", !.data = evs, !.returned = evs]
    /\ request = NoRequest
    /\ moduleName = <<>>
    /\ tmpDir = "none"
    /\ compiled = FALSE
    /\ tx = NoTx
    /\ result = NoResult
    /\ extracted = NoToken
    /\ token = NoToken
    /\ idolToken = NoToken
    /\ wait = NoWait
    /\ preflight = 0
    /\ dryRun = NoDryRun
    /\ confirmed = {}
    /\ registered = NoRegistered
    /\ error = NoError
    /\ response = NoResponse
    /\ calls = <<>>
    /\ tasks = <<>>
    /\ answer = NoAnswer
    /\ publishers = NoPublishers
    /\ dirs = {}
    /\ previous = NoPrevious
    /\ poolsPackageId = PoolsPackageId

\* the function returned; it is called with the same events in another order
ReorderEvents ==
    /\ pc = "done"
    /\ ~previous.set
    /\ previous' = [previous EXCEPT !.set = TRUE, !.query = query,
                                    !.fetched = fetched, !.answer = answer]
    /\ \E evs \in PermutationsOf(fetched.returned) :
        fetched' = [fetched EXCEPT !.data = evs, !.returned = evs]
    /\ pc' = "aggregate"
    /\ UNCHANGED <<error, query, tasks, answer>>
    /\ UNCHANGED launchVars
    /\ UNCHANGED publishVars
    /\ UNCHANGED poolsPackageId

NextOrders ==
    \/ CalculateVolume
    \/ CalculateHolders
    \/ ReorderEvents

SpecOrders == InitOrders /\ [][NextOrders]_vars

(***************************************************************************)
(* C35 calculateHolders returns the same holder map for a list of events   *)
(*     and for every permutation of it.                                    *)
(***************************************************************************)
C35_HoldersIndependentOfOrder ==
    (pc = "done" /\ query.op = "holders" /\ previous.set) => answer = previous.answer

\* the three sums of calculateVolume before they are rounded
VolumeSums(evs) ==
    ForEachVolume(evs, [totalVolume |-> Zero, buyVolume |-> Zero, sellVolume |-> Zero])

StatsEndpoints == {"/volume", "/holders", "/holders-volume"}

\* a service that never misses its package id
PackageIdNeverMissing(pkg) == FALSE

\* !this.poolsPackageId
PackageIdMissing(pkg) == pkg = <<>>

\* new Error('POOLS_PACKAGE_ID is not configured for fetching trade events.')
NotConfigured == Err("PoolsPackageNotConfigured", "getTradeEvents", "", NoId, <<>>)

\* the service is constructed with or without POOLS_PACKAGE_ID
InitStats ==
    /\ pc = "idle"
    /\ request = NoRequest
    /\ moduleName = <<>>
    /\ tmpDir = "none"
    /\ compiled = FALSE
    /\ tx = NoTx
    /\ result = NoResult
    /\ extracted = NoToken
    /\ token = NoToken
    /\ idolToken = NoToken
    /\ wait = NoWait
    /\ preflight = 0
    /\ dryRun = NoDryRun
    /\ confirmed = {}
    /\ registered = NoRegistered
    /\ error = NoError
    /\ response = NoResponse
    /\ calls = <<>>
    /\ query = NoQuery
    /\ fetched = NoFetched
    /\ tasks = <<>>
    /\ answer = NoAnswer
    /\ publishers = NoPublishers
    /\ dirs = {}
    /\ previous = NoPrevious
    /\ poolsPackageId \in {<<>>, PoolsPackageId}

\* a request arrives at one of the three endpoints; /holders-volume answers 400
\* without bondingCurveId; otherwise the handler calls getTradeEvents, which
\* throws at once when the package id is missing
StatsRequest ==
    /\ pc = "idle"
    /\ \E endpoint \in StatsEndpoints, bondingCurveId \in Curves \cup {""},
          limit \in 1..MaxEvents :
        /\ query' = [NoQuery EXCEPT !.op = endpoint, !.curveId = bondingCurveId,
                                    !.limit = limit]
        /\ IF endpoint = "/holders-volume" /\ bondingCurveId = ""
           THEN /\ response' = [NoResponse EXCEPT !.status = 400]
                /\ error' = error
                /\ pc' = "done"
           ELSE IF PackageIdMissing(poolsPackageId)
           THEN /\ response' = response
                /\ error' = NotConfigured
                /\ pc' = "statsCatch"
           ELSE /\ response' = response
                /\ error' = error
                /\ pc' = "queryEvents"
    /\ UNCHANGED <<request, moduleName, tmpDir, compiled, tx, result, extracted, token,
                   idolToken, wait, preflight, dryRun, confirmed, registered, calls>>
    /\ UNCHANGED <<fetched, tasks, answer>>
    /\ UNCHANGED publishVars
    /\ UNCHANGED poolsPackageId
    /\ UNCHANGED previous

\* bondingCurveId || 'all'
CurveOrAll(bondingCurveId) == IF bondingCurveId = "" THEN "all" ELSE bondingCurveId

\* Object.keys(holdersData).length
HolderCount(holdersData) == Cardinality(DOMAIN holdersData)

\* the body of the 200 response of an endpoint for the events that
\* getTradeEvents returned
StatsBody(endpoint, bondingCurveId, events) ==
    LET volumeData == calculateVolume(events)
        holdersData == calculateHolders(events)
    IN  IF endpoint = "/volume"
        THEN [bondingCurveId |-> CurveOrAll(bondingCurveId)] @@ volumeData
        ELSE IF endpoint = "/holders"
        THEN [bondingCurveId |-> CurveOrAll(bondingCurveId),
              holderCount |-> HolderCount(holdersData),
              holders |-> holdersData]
        ELSE [bondingCurveId |-> bondingCurveId,
              volume |-> volumeData,
              holders |-> [count |-> HolderCount(holdersData),
                           wallets |-> holdersData]]

\* the events, after the endpoint has computed its figures from them
EventsAfter(endpoint, events) ==
    IF endpoint = "/volume" THEN events ELSE ReversedCopy(events).events

\* getTradeEvents returned: the handler computes the figures and answers 200
StatsRespond ==
    /\ pc = "aggregate"
    /\ query.op \in StatsEndpoints
    /\ answer' = Returned(StatsBody(query.op, query.curveId, fetched.returned))
    /\ fetched' = [fetched EXCEPT !.returned = EventsAfter(query.op, @)]
    /\ response' = [NoResponse EXCEPT !.status = 200]
    /\ pc' = "done"
    /\ UNCHANGED <<request, moduleName, tmpDir, compiled, tx, result, extracted, token,
                   idolToken, wait, preflight, dryRun, confirmed, registered, calls>>
    /\ UNCHANGED <<error, query, tasks>>
    /\ UNCHANGED publishVars
    /\ UNCHANGED poolsPackageId
    /\ UNCHANGED previous

\* catch (error) { res.status(500).json({error, details: error.message}) }
StatsCatch ==
    /\ pc = "statsCatch"
    /\ response' = [NoResponse EXCEPT !.status = 500, !.error = error]
    /\ answer' = Threw(error)
    /\ pc' = "done"
    /\ UNCHANGED <<request, moduleName, tmpDir, compiled, tx, result, extracted, token,
                   idolToken, wait, preflight, dryRun, confirmed, registered, calls>>
    /\ UNCHANGED <<error, query, fetched, tasks>>
    /\ UNCHANGED publishVars
    /\ UNCHANGED poolsPackageId
    /\ UNCHANGED previous

NextStats ==
    \/ StatsRequest
    \/ QueryEvents
    \/ FilterEvents
    \/ CatchEvents
    \/ StatsRespond
    \/ StatsCatch

SpecStats == InitStats /\ [][NextStats]_vars

\* the event queries issued so far
EventQueries == {i \in 1..Len(calls) : calls[i].op = "queryEvents"}

\* an endpoint has answered a request that it did not refuse with 400
StatsAnswered ==
    /\ pc = "done"
    /\ query.op \in StatsEndpoints
    /\ response.status # 400

(***************************************************************************)
(* C37 When the pools package id is not configured, getTradeEvents throws  *)
(*     the configuration error before any event query is issued and the    *)
(*     endpoint answers 500 with that error, not an aggregate; a           *)
(*     configured service never answers 500, so this is the only error     *)
(*     that getTradeEvents lets through.                                   *)
(***************************************************************************)
C37_ConfigurationErrorOnly ==
    /\ poolsPackageId = <<>> => EventQueries = {}
    /\ (StatsAnswered /\ poolsPackageId = <<>>) =>
            /\ response.status = 500
            /\ response.error = NotConfigured
            /\ answer = Threw(NotConfigured)
            /\ fetched = NoFetched
    /\ (StatsAnswered /\ poolsPackageId # <<>>) =>
            /\ response.status = 200
            /\ answer.kind = "returned"
            /\ Cardinality(EventQueries) = 1
    /\ (error # NoError \/ response.status = 500) =>
            /\ poolsPackageId = <<>>
            /\ error = NotConfigured

\* GET /volume of a service without POOLS_PACKAGE_ID was answered with 500
C37_Witness ==
    /\ pc = "done"
    /\ query.op = "/volume"
    /\ poolsPackageId = <<>>
    /\ response.status = 500
    /\ calls = <<>>

\* a volume of nothing
NoVolume ==
    [totalVolume |-> 0, buyVolume |-> 0, sellVolume |-> 0, transactionCount |-> 0]

(***************************************************************************)
(* C38 When the event query fails, each of the three endpoints answers 200 *)
(*     with zero volume, zero transactions and no holder, which is the     *)
(*     answer it gives when the query returns no event of the curve; it    *)
(*     never answers 500.                                                  *)
(***************************************************************************)
C38_QueryFailureAnswersEmpty ==
    /\ fetched.fetch = "failed" => response.status # 500
    /\ (pc = "done" /\ (fetched.fetch = "failed"
                            \/ (fetched.fetch = "ok" /\ fetched.returned = <<>>))) =>
            /\ response.status = 200
            /\ answer.kind = "returned"
            /\ answer.value.bondingCurveId = IF query.op = "/holders-volume"
                                             THEN query.curveId
                                             ELSE CurveOrAll(query.curveId)
            /\ query.op = "/volume" =>
                    /\ answer.value.totalVolume = 0
                    /\ answer.value.buyVolume = 0
                    /\ answer.value.sellVolume = 0
                    /\ answer.value.transactionCount = 0
            /\ query.op = "/holders" =>
                    /\ answer.value.holderCount = 0
                    /\ DOMAIN answer.value.holders = {}
            /\ query.op = "/holders-volume" =>
                    /\ answer.value.volume = NoVolume
                    /\ answer.value.holders.count = 0
                    /\ DOMAIN answer.value.holders.wallets = {}

\* the query of GET /holders-volume failed and the endpoint answered 200
C38_Witness ==
    /\ pc = "done"
    /\ query.op = "/holders-volume"
    /\ fetched.fetch = "failed"
    /\ response.status = 200
    /\ answer.value.volume = NoVolume

\* what getTradeEvents returned, taken anew from what the ledger answered
FreshEvents ==
    IF fetched.fetch = "ok" THEN FilteredEvents(fetched.data, query.curveId) ELSE <<>>

(***************************************************************************)
(* C40 calculateVolume and calculateHolders leave the events they are      *)
(*     given as they were, so GET /holders-volume answers with the volume  *)
(*     and the holders that each function computes from a fresh copy of    *)
(*     the events, whichever of the two is computed first.                 *)
(***************************************************************************)
C40_EventsLeftUnchanged ==
    /\ [][(pc = "aggregate") => fetched' = fetched]_vars
    /\ []((pc = "done" /\ query.op = "/holders-volume" /\ response.status = 200) =>
            /\ fetched.returned = FreshEvents
            /\ answer.value.volume = calculateVolume(FreshEvents)
            /\ answer.value.holders.wallets = calculateHolders(FreshEvents)
            /\ answer.value.volume = calculateVolume(ReversedCopy(FreshEvents).events)
            /\ calculateHolders(ReversedCopy(FreshEvents).events)
                    = calculateHolders(FreshEvents))

\* GET /holders-volume answered from two events that differ
C40_Witness ==
    /\ pc = "done"
    /\ query.op = "/holders-volume"
    /\ response.status = 200
    /\ Len(fetched.returned) = 2
    /\ fetched.returned[1] # fetched.returned[2]
    /\ answer.value.volume.transactionCount = 2

\* this step is a lookup of waitForObject
LooksUp ==
    /\ pc = "waitForObject"
    /\ wait.status = "lookup"
    /\ wait' # wait

(***************************************************************************)
(* C39 waitForObject checks the deadline only after a lookup that failed:  *)
(*     it looks the object up at least once, also with a timeout of 0; a   *)
(*     lookup that finds the object makes it return, also when the lookup  *)
(*     started after the deadline; and the timeout error is raised only    *)
(*     by a step that made a lookup which did not find the object.         *)
(***************************************************************************)
C39_DeadlineCheckedAfterLookup ==
    /\ [](wait.status \in {"sleep", "timeout"} =>
            /\ wait.attempts >= 1
            /\ wait.lastOutcome \in {"nodata", "throws"}
            /\ Len(calls) = 1
            /\ calls[1].op = "getObject")
    /\ [](wait.status = "timeout" => wait.elapsed >= wait.timeoutMs)
    /\ [][LooksUp =>
            /\ Len(calls') = 1
            /\ calls'[1].op = "getObject"]_vars
    /\ [][(LooksUp /\ wait'.lastOutcome = "data") =>
            /\ wait'.status = "returned"
            /\ pc' = wait.ret
            /\ error' = NoError]_vars
    /\ [][(wait'.status = "timeout" /\ wait.status # "timeout") =>
            /\ LooksUp
            /\ wait'.attempts = wait.attempts + 1
            /\ wait'.lastOutcome \in {"nodata", "throws"}
            /\ error'.kind = "ReadinessTimeout"]_vars

\* a wait with a timeout of 0 made one lookup and then raised the timeout
\* error
C39_Witness ==
    /\ wait.status = "timeout"
    /\ wait.timeoutMs = 0
    /\ wait.attempts = 1
    /\ Len(calls) = 1
    /\ error.kind = "ReadinessTimeout"

=============================================================================
